---------------------------- MODULE Spec2Model ----------------------------
(***************************************************************************)
(* Smart Building AI Assistant: the knowledge store of streamlit_app.py    *)
(* and AutoGenAI.py (chunker, pseudo-embedder, tiered storage backend of   *)
(* chromadb_compat.py, retriever, query classification).                   *)
(*                                                                         *)
(* Texts are TLA+ strings; a character is a string of length 1.            *)
(***************************************************************************)
EXTENDS Integers, Sequences, FiniteSets, TLC

VARIABLES
  ck,   \* one call of chunk_text: its arguments and the locals of its loop
  em,   \* one call of simple_embedding: its argument and its result
  qi,   \* one call of determine_query_intent / the advisory branch
  ux,   \* one call of extract_text_from_url: the site's answers and its result
  sc,   \* one call of the keyword scan of search_documents: its inputs and its result
  wt,   \* the file watcher: its handler, the clock, last_training and the trainings started
  \* The process that constructs and uses a SmartBuildingKnowledgeBase:
  impl,                \* the module whose class it is: streamlit_app or AutoGenAI
  pc,                  \* where the construction stands; "ready" once it returned
  client,              \* ChromaDBWrapper.client / SmartBuildingKnowledgeBase.client
  collection,          \* .collection: "None" or the collection's name
  use_fallback,        \* ChromaDBWrapper.use_fallback
  chromadb_available,  \* ChromaDBWrapper.chromadb_available
  fallback_storage,    \* ChromaDBWrapper.fallback_storage (a dict, in insertion order)
  sqlite3_module,      \* sys.modules['sqlite3']
  chroma,              \* what the chromadb collection holds
  hashseed,            \* the salt of hash() in this process
  disk,                \* the file system: the revision of every file
  attempts,            \* history: the storage tiers tried, with their outcome
  ingested,            \* history: the files add_document returned True for
  ret                  \* the last call of an operation and what it returned

kbVars == <<impl, pc, client, collection, use_fallback, chromadb_available,
            fallback_storage, sqlite3_module, chroma, hashseed, disk, attempts,
            ingested, ret>>

vars == <<ck, em, qi, ux, sc, wt, kbVars>>

(***************************************************************************)
(* Bounds of the model.                                                    *)
(***************************************************************************)
MaxTextLen == 6
MaxChunkSize == 4
MaxOverlap == 4
MaxRepeat == 3
MaxSeed == 2
MaxResults == 2
MaxScanDocs == 3

(***************************************************************************)
(* Python string primitives.                                               *)
(***************************************************************************)
Min(a, b) == IF a <= b THEN a ELSE b

CharAt(s, i) == SubSeq(s, i, i)

\* A slice index as Python normalises it: negative counts from the end,
\* and everything is clamped to 0 .. len.
SliceIndex(len, i) ==
  IF i < 0 THEN (IF len + i > 0 THEN len + i ELSE 0) ELSE Min(i, len)

\* text[a:b]
PySlice(text, a, b) ==
  LET lo == SliceIndex(Len(text), a)
      hi == SliceIndex(Len(text), b)
  IN IF lo < hi THEN SubSeq(text, lo + 1, hi) ELSE ""

(***************************************************************************)
(* chunk_text(text, chunk_size, overlap): the while loop, one iteration    *)
(* per step.  st = [start, chunks] are the loop's locals.                  *)
(***************************************************************************)
ChunkLoopCond(text, st) == st.start < Len(text)

ChunkIterSkipOverlap(text, chunk_size, overlap, st) ==
  LET end == st.start + chunk_size
  IN [start  |-> end,
      chunks |-> Append(st.chunks, PySlice(text, st.start, end))]

ChunkIterShortWindow(text, chunk_size, overlap, st) ==
  LET end == st.start + chunk_size
  IN [start  |-> end - overlap,
      chunks |-> Append(st.chunks, PySlice(text, st.start + 1, end))]

ChunkIterLongWindow(text, chunk_size, overlap, st) ==
  LET end == st.start + chunk_size
  IN [start  |-> end - overlap,
      chunks |-> Append(st.chunks, PySlice(text, st.start, end + 1))]

ChunkIter(text, chunk_size, overlap, st) ==
  LET end == st.start + chunk_size
  IN [start  |-> end - overlap,
      chunks |-> Append(st.chunks, PySlice(text, st.start, end))]

ChunkStart == [start |-> 0, chunks |-> <<>>]

Letters == "abcdefghijklmnopqrstuvwxyz"

RECURSIVE DistinctText(_)
DistinctText(n) ==
  IF n = 0 THEN ""
  ELSE DistinctText(n - 1) \o CharAt(Letters, ((n - 1) % Len(Letters)) + 1)

RECURSIVE Repeat(_, _)
Repeat(s, n) ==
  IF n = 0 THEN ""
  ELSE IF n % 2 = 1 THEN Repeat(s, n - 1) \o s
  ELSE Repeat(s, n \div 2) \o Repeat(s, n \div 2)

ChunkIdle ==
  ck = [pc |-> "idle", text |-> "", chunk_size |-> 1, overlap |-> 0,
        start |-> 0, chunks |-> <<>>]

ChunkStep ==
  /\ ck.pc = "loop"
  /\ ChunkLoopCond(ck.text, ck)
  /\ Len(ck.chunks) < MaxTextLen + 2  \* a loop that does not end is followed this far
  /\ LET st == ChunkIter(ck.text, ck.chunk_size, ck.overlap,
                         [start |-> ck.start, chunks |-> ck.chunks])
     IN ck' = [ck EXCEPT !.start = st.start, !.chunks = st.chunks]
  /\ UNCHANGED <<em, qi, ux, sc, wt, kbVars>>

ChunkReturn ==
  /\ ck.pc = "loop"
  /\ ~ChunkLoopCond(ck.text, ck)
  /\ ck' = [ck EXCEPT !.pc = "done"]
  /\ UNCHANGED <<em, qi, ux, sc, wt, kbVars>>

(***************************************************************************)
(* simple_embedding(text).                                                 *)
(***************************************************************************)
UpperCase == "ABCDEFGHIJKLMNOPQRSTUVWXYZ"
LowerCase == "abcdefghijklmnopqrstuvwxyz"
Digits == "0123456789"
Whitespace == {" ", "\t", "\n", "\r"}

CharsOf(s) == {CharAt(s, i) : i \in 1..Len(s)}

IndexIn(s, c) == CHOOSE i \in 1..Len(s) : CharAt(s, i) = c

UpperChars == CharsOf(UpperCase)
LowerChars == CharsOf(LowerCase)
DigitChars == CharsOf(Digits)
KeptChars == LowerChars \cup UpperChars \cup DigitChars \cup Whitespace

\* str.lower() on one character
LowerChar(c) ==
  IF c \in UpperChars THEN CharAt(LowerCase, IndexIn(UpperCase, c)) ELSE c

\* str.lower()
RECURSIVE Lower(_)
Lower(s) ==
  IF Len(s) = 0 THEN ""
  ELSE IF Len(s) = 1 THEN LowerChar(s)
  ELSE LET m == Len(s) \div 2
       IN Lower(SubSeq(s, 1, m)) \o Lower(SubSeq(s, m + 1, Len(s)))

\* the characters re.sub(r'[^a-zA-Z0-9\s]', '', ...) keeps
RECURSIVE StripSpecial(_)
StripSpecial(s) ==
  IF Len(s) = 0 THEN ""
  ELSE IF Len(s) = 1 THEN (IF s \in KeptChars THEN s ELSE "")
  ELSE LET m == Len(s) \div 2
       IN StripSpecial(SubSeq(s, 1, m)) \o StripSpecial(SubSeq(s, m + 1, Len(s)))

IsSpaceAt(s, i) == CharAt(s, i) \in Whitespace

\* the first position >= i holding whitespace, Len(s) + 1 when there is none
NextSpace(s, i) ==
  CHOOSE j \in i..(Len(s) + 1) :
    /\ j = Len(s) + 1 \/ IsSpaceAt(s, j)
    /\ \A k \in i..(j - 1) : ~IsSpaceAt(s, k)

\* str.split(): the maximal runs of non-whitespace characters, in order.
\* SplitFrom gives the runs that begin at a position of lo..hi.
RECURSIVE SplitFrom(_, _, _)
SplitFrom(s, lo, hi) ==
  IF lo > hi THEN <<>>
  ELSE IF lo = hi
    THEN IF ~IsSpaceAt(s, lo) /\ (lo = 1 \/ IsSpaceAt(s, lo - 1))
         THEN <<SubSeq(s, lo, NextSpace(s, lo) - 1)>>
         ELSE <<>>
  ELSE LET m == (lo + hi) \div 2
       IN SplitFrom(s, lo, m) \o SplitFrom(s, m + 1, hi)

Split(s) == SplitFrom(s, 1, Len(s))

\* words[:n]
Take(seq, n) == SubSeq(seq, 1, Min(n, Len(seq)))

EmbeddingDim == 100
MaxWords == 100
HashBuckets == 100

\* hash(word): Python salts the hash of a string with a per-process seed and
\* returns a signed machine integer.  A salted polynomial hash over a signed
\* range stands for it.
HashRange == 2 ^ 16
CharCode(c) ==
  IF c \in LowerChars THEN IndexIn(LowerCase, c)
  ELSE IF c \in DigitChars THEN 26 + IndexIn(Digits, c)
  ELSE 37 + (IF c \in UpperChars THEN IndexIn(UpperCase, c) ELSE 0)

RECURSIVE HashFrom(_, _, _)
HashFrom(h, word, i) ==
  IF i > Len(word) THEN h
  ELSE HashFrom((h * 31 + CharCode(CharAt(word, i))) % HashRange, word, i + 1)

PyHash(seed, word) == HashFrom(seed, word, 1) - (HashRange \div 2)

\* sum(v[lo..hi])
RECURSIVE SumSeq(_, _, _)
SumSeq(v, lo, hi) ==
  IF lo > hi THEN 0
  ELSE IF lo = hi THEN v[lo]
  ELSE LET m == (lo + hi) \div 2 IN SumSeq(v, lo, m) + SumSeq(v, m + 1, hi)

\* the words the loop of simple_embedding visits
EmbeddedWordsUncapped(text) == Split(StripSpecial(Lower(text)))

EmbeddedWords(text) == Take(Split(StripSpecial(Lower(text))), MaxWords)

\* embedding[hash_val] += 1.0 for every visited word; entry i is bucket i - 1
BucketCounts(seed, words) ==
  LET hash_val == [k \in 1..Len(words) |-> PyHash(seed, words[k]) % HashBuckets]
  IN [i \in 1..EmbeddingDim |->
        Cardinality({k \in 1..Len(words) : hash_val[k] = i - 1})]

\* The returned vector: component i is the fraction <<numerator, denominator>>
\* embedding[i] / total, where total = sum(embedding) or 1.
simple_embedding(seed, text) ==
  LET embedding == BucketCounts(seed, EmbeddedWords(text))
      Or1(sum) == IF sum = 0 THEN 1 ELSE sum
      Normalized(total) == [i \in 1..Len(embedding) |-> <<embedding[i], total>>]
  IN Normalized(Or1(SumSeq(embedding, 1, Len(embedding))))

(***************************************************************************)
(* The storage backend: ChromaDBWrapper.__init__ and _initialize_chromadb  *)
(* (streamlit_app), and the constructor of AutoGenAI's knowledge base,     *)
(* which opens the persistent store itself.                                *)
(***************************************************************************)
None == "None"
CollectionName == "smart_building_docs"

NoCall == [op |-> "none"]

\* The fields as ChromaDBWrapper.__init__ sets them before it calls
\* _initialize_chromadb.
WrapperFieldsInit ==
  /\ client = None
  /\ collection = None
  /\ use_fallback = FALSE
  /\ fallback_storage = <<>>
  /\ chromadb_available = FALSE

\* The files the process can be asked to ingest.
FileNames == {"hvac.txt", "lights.txt", "plan.md", "bad.pdf", "gone.txt", "empty.txt"}

\* The hash salts of the processes followed are the least and the greatest;
\* every file on disk is at its first revision.
KBInit ==
  /\ impl \in {"streamlit_app", "AutoGenAI"}
  /\ pc = IF impl = "streamlit_app" THEN "tryA" ELSE "construct"
  /\ WrapperFieldsInit
  /\ sqlite3_module = "sqlite3"
  /\ chroma = <<>>
  /\ hashseed \in {0, MaxSeed}
  /\ disk = [name \in FileNames |-> 1]
  /\ attempts = <<>>
  /\ ingested = {}
  /\ ret = NoCall

KBIdle ==
  /\ impl = "none"
  /\ pc = "idle"
  /\ WrapperFieldsInit
  /\ sqlite3_module = "sqlite3"
  /\ chroma = <<>>
  /\ hashseed = 0
  /\ disk = [name \in FileNames |-> 1]
  /\ attempts = <<>>
  /\ ingested = {}
  /\ ret = NoCall

\* The statements of a tier's try block that can raise, in order.
TierSteps(tier) ==
  CASE tier = "A" -> <<"import pysqlite3", "import chromadb", "PersistentClient",
                       "get_or_create_collection">>
    [] tier = "B" -> <<"import chromadb", "PersistentClient", "get_or_create_collection">>
    [] tier = "C" -> <<"import chromadb", "Client", "get_or_create_collection">>

\* A tier's try block raises at its statement number f, or runs through (f = 0).
\* StepDone(tier, f, step): the statement `step` of the tier was executed.
StepDone(tier, f, step) ==
  f = 0 \/ \E i \in 1..(f - 1) : TierSteps(tier)[i] = step

\* _initialize_chromadb: `if self._try_...(): return`, else the next method.
AfterTierNoReturn(tier, ok) ==
  CASE tier = "A" -> "tryB" [] tier = "B" -> "tryC" [] tier = "C" -> "tryD"

AfterTier(tier, ok) ==
  IF ok THEN "ready"
  ELSE CASE tier = "A" -> "tryB" [] tier = "B" -> "tryC" [] tier = "C" -> "tryD"


\* The body of _try_pysqlite3_chromadb / _try_standard_chromadb /
\* _try_memory_chromadb: the assignments made before the statement that
\* raises, the except clause returning False.
TryTier(tier, f) ==
  /\ client' = LET made == IF tier = "C" THEN "Client" ELSE "PersistentClient"
                IN IF StepDone(tier, f, made) THEN made ELSE client
  /\ collection' = IF f = 0 THEN CollectionName ELSE collection
  /\ chromadb_available' = IF f = 0 THEN TRUE ELSE chromadb_available
  /\ sqlite3_module' = IF tier = "A" /\ StepDone(tier, f, "import pysqlite3")
                       THEN "pysqlite3" ELSE sqlite3_module
  /\ attempts' = Append(attempts, [tier |-> tier, ok |-> f = 0])
  /\ pc' = AfterTier(tier, f = 0)
  /\ UNCHANGED <<impl, use_fallback, fallback_storage, chroma, hashseed, disk, ingested, ret>>
  /\ UNCHANGED <<ck, em, qi, ux, sc, wt>>

TryPysqlite3 == pc = "tryA" /\ \E f \in 0..Len(TierSteps("A")) : TryTier("A", f)

TryStandard == pc = "tryB" /\ \E f \in 0..Len(TierSteps("B")) : TryTier("B", f)

TryMemory == pc = "tryC" /\ \E f \in 0..Len(TierSteps("C")) : TryTier("C", f)

\* _activate_fallback
ActivateFallback ==
  /\ pc = "tryD"
  /\ use_fallback' = TRUE
  /\ attempts' = Append(attempts, [tier |-> "D", ok |-> TRUE])
  /\ pc' = "ready"
  /\ UNCHANGED <<impl, client, collection, chromadb_available, fallback_storage,
                 sqlite3_module, chroma, hashseed, disk, ingested, ret>>
  /\ UNCHANGED <<ck, em, qi, ux, sc, wt>>

\* AutoGenAI.SmartBuildingKnowledgeBase.__init__: no try around the two calls.
AutoGenConstruct ==
  /\ pc = "construct"
  /\ \E f \in 0..2 :
       /\ client' = IF f = 1 THEN client ELSE "PersistentClient"
       /\ collection' = IF f = 0 THEN CollectionName ELSE collection
       /\ attempts' = Append(attempts, [tier |-> "B", ok |-> f = 0])
       /\ pc' = IF f = 0 THEN "ready" ELSE "raised"
  /\ UNCHANGED <<impl, use_fallback, chromadb_available, fallback_storage,
                 sqlite3_module, chroma, hashseed, disk, ingested, ret>>
  /\ UNCHANGED <<ck, em, qi, ux, sc, wt>>

(***************************************************************************)
(* The file system and extract_text_from_file.                             *)
(***************************************************************************)
\* file_path.exists()
FileExists(name) == name # "gone.txt"

\* The states of the file system: hvac.txt is rewritten between a short
\* revision and one longer than the stride of the chunker; the other files
\* stay at their first revision.
Disks ==
  {d \in [FileNames -> {1, 2}] : \A name \in FileNames : d[name] = 2 => name = "hvac.txt"}

\* What is on the disk d.  Reading bad.pdf raises in the PDF reader; empty.txt
\* has no content.
FileContent(d, name) ==
  CASE name = "hvac.txt" ->
         IF d[name] = 1 THEN "The HVAC filter should be replaced every 3 months."
         ELSE Repeat("The HVAC filter should be replaced every 3 months. ", 16)
    [] name = "lights.txt" -> "LED lighting schedule for classroom 2."
    [] name = "plan.md" -> "# Floor plan"
    [] OTHER -> ""

\* the position of the last "." of name, 0 when there is none
LastDot(name) ==
  LET dots == {i \in 1..Len(name) : CharAt(name, i) = "."}
  IN IF dots = {} THEN 0 ELSE CHOOSE i \in dots : \A j \in dots : j <= i

\* Path.suffix and Path.stem
Suffix(name) == IF LastDot(name) <= 1 THEN "" ELSE SubSeq(name, LastDot(name), Len(name))
Stem(name) == IF LastDot(name) <= 1 THEN name ELSE SubSeq(name, 1, LastDot(name) - 1)

\* str.startswith
StartsWith(s, prefix) == Len(s) >= Len(prefix) /\ SubSeq(s, 1, Len(prefix)) = prefix

\* `sub in s`
Contains(s, sub) ==
  \E i \in 1..(Len(s) - Len(sub) + 1) : SubSeq(s, i, i + Len(sub) - 1) = sub

\* str.strip()
Strip(s) ==
  LET inner == {i \in 1..Len(s) : ~IsSpaceAt(s, i)}
  IN IF inner = {} THEN ""
     ELSE SubSeq(s, CHOOSE i \in inner : \A j \in inner : i <= j,
                    CHOOSE i \in inner : \A j \in inner : j <= i)

extract_text_from_file(d, name) ==
  IF Lower(Suffix(name)) \in {".pdf", ".docx", ".doc", ".txt", ".xlsx", ".xls",
                              ".csv", ".json"}
  THEN IF name = "bad.pdf"
       THEN "Error reading file " \o name \o ": EOF marker not found"
       ELSE FileContent(d, name)
  ELSE "Unsupported file format"

(***************************************************************************)
(* extract_text_from_url.  A site is what the network answers for one URL: *)
(* robots, the outcome of fetching and parsing robots.txt; first and       *)
(* second, the outcomes of the GET with and without certificate            *)
(* verification; content_type and text, the header and body of a response. *)
(* The call yields the returned string and the events it caused, in order. *)
(***************************************************************************)
\* can_fetch_url: RobotFileParser.read() raises when the server cannot be
\* reached, and the except branch answers True.  An HTTP error status does
\* not raise: the parser then allows everything after a 4xx other than 401
\* and 403, and nothing after 401, 403 or a status that leaves robots.txt
\* unread.
can_fetch_url(robots) ==
  CASE robots = "unreachable" -> TRUE
    [] robots = "allows" -> TRUE
    [] robots = "disallows" -> FALSE
    [] robots = "http_404" -> TRUE
    [] OTHER -> FALSE

Urls == {"https://a.example/hvac", "http://www.b.example/feed"}

\* the body of a page worth ingesting
PageText ==
  "Log every visit of the technician. Inspect filters, belts and coils in "
    \o "spring. The HVAC filter is replaced every 3 months. Worn belts are "
    \o "replaced every year."

\* extract_text_from_html once the markup is parsed; text is the cleaned text
extract_text_from_html(text, url) ==
  "Title: No title\nURL: " \o url \o "\n\nContent:\n" \o text

\* extract_text_from_rss for a feed without entries
extract_text_from_rss(text, url) == "RSS Feed: Unknown\nURL: " \o url \o "\n"

\* the branch on the declared content type
ResponseText(site, url) ==
  LET content_type == Lower(site.content_type)
  IN IF Contains(content_type, "text/html")
       THEN extract_text_from_html(site.text, url)
     ELSE IF Contains(content_type, "application/pdf")
       THEN "PDF content from " \o url
              \o " (PDF parsing from URL not implemented yet)"
     ELSE IF Contains(content_type, "text/plain") THEN site.text
     ELSE IF \/ Contains(content_type, "application/rss+xml")
             \/ Contains(content_type, "application/atom+xml")
       THEN extract_text_from_rss(site.text, url)
     ELSE "Content from " \o url \o ":\n" \o PySlice(site.text, 0, 2000) \o "..."

RetryTwice(site, url, events) ==
  IF site.second = "ok"
  THEN [value |-> ResponseText(site, url),
        events |-> events \o <<"get_unverified", "get_unverified">>]
  ELSE [value |-> "Error: SSL certificate verification failed and fallback "
                    \o "also failed for " \o url,
        events |-> events \o <<"get_unverified", "get_unverified">>]

\* the retry without verification, after the warning
RetryUnverified(site, url, events) ==
  IF site.second = "ok"
  THEN [value |-> ResponseText(site, url), events |-> events \o <<"get_unverified">>]
  ELSE [value |-> "Error: SSL certificate verification failed and fallback "
                    \o "also failed for " \o url,
        events |-> events \o <<"get_unverified">>]

extract_text_from_url(url, site) ==
  IF ~can_fetch_url(site.robots)
  THEN [value |-> "Error: Robots.txt disallows fetching from " \o url,
        events |-> <<"robots">>]
  ELSE LET events == <<"robots", "sleep", "get_verified">>
       IN CASE site.first = "ok" ->
                 [value |-> ResponseText(site, url), events |-> events]
            [] site.first = "ssl_error" ->
                 RetryUnverified(site, url, events \o <<"warning">>)
            [] site.first = "other_error" ->
                 [value |-> "Error processing " \o url, events |-> events]
            [] OTHER ->
                 [value |-> "Error fetching " \o url, events |-> events]

DefaultChunkSize == 1000
DefaultOverlap == 200

RECURSIVE ChunkLoop(_, _, _, _)
ChunkLoop(text, chunk_size, overlap, st) ==
  IF ChunkLoopCond(text, st)
  THEN ChunkLoop(text, chunk_size, overlap, ChunkIter(text, chunk_size, overlap, st))
  ELSE st.chunks

chunk_text(text, chunk_size, overlap) == ChunkLoop(text, chunk_size, overlap, ChunkStart)

(***************************************************************************)
(* The two stores.  An entry is [id, document, metadata, embedding].       *)
(***************************************************************************)
IdsOf(store) == {store[i].id : i \in 1..Len(store)}

\* a list in place of the dict
DictAppend(store, entry) == Append(store, entry)

\* self.fallback_storage[id] = {...}: a new key goes last, an old key keeps
\* its place and gets the new value.
DictPut(store, entry) ==
  IF entry.id \in IdsOf(store)
  THEN [store EXCEPT ![CHOOSE i \in 1..Len(store) : store[i].id = entry.id] = entry]
  ELSE Append(store, entry)

RECURSIVE DictPutAll(_, _, _)
DictPutAll(store, entries, i) ==
  IF i > Len(entries) THEN store
  ELSE DictPutAll(DictPut(store, entries[i]), entries, i + 1)

\* chromadb's collection.add: the entries are appended; an id the collection
\* already holds is left as it is.
RECURSIVE ChromaAdd(_, _, _)
ChromaAdd(store, entries, i) ==
  IF i > Len(entries) THEN store
  ELSE ChromaAdd(IF entries[i].id \in IdsOf(store) THEN store
                 ELSE Append(store, entries[i]), entries, i + 1)

\* Fractions <<numerator, denominator>> with a positive denominator.
FracLess(x, y) == x[1] * y[2] < y[1] * x[2]

\* The sum of the squared differences over the components in S, cross-multiplied
\* by the two denominators.
RECURSIVE SqDiffSum(_, _, _)
SqDiffSum(a, b, S) ==
  IF S = {} THEN 0
  ELSE LET i == CHOOSE k \in S : TRUE
           diff == a[i][1] * b[i][2] - b[i][1] * a[i][2]
       IN diff * diff + SqDiffSum(a, b, S \ {i})

\* The squared L2 distance of two embeddings, each with one denominator for
\* all its components.  A component that is zero in both adds nothing.
SqDistance(a, b) ==
  <<SqDiffSum(a, b, {i \in 1..Len(a) : a[i][1] # 0 \/ b[i][1] # 0}),
    (a[1][2] * b[1][2]) * (a[1][2] * b[1][2])>>

RECURSIVE Distances(_, _, _)
Distances(store, query_embedding, j) ==
  IF j > Len(store) THEN <<>>
  ELSE <<SqDistance(query_embedding, store[j].embedding)>>
         \o Distances(store, query_embedding, j + 1)

\* The n_results entries with the least distances d, nearest first; of two
\* entries at the same distance the one added first.
NearestFirst(store, d, n_results) ==
  LET rank(j) == 1 + Cardinality({k \in 1..Len(store) :
                        FracLess(d[k], d[j]) \/ (~FracLess(d[j], d[k]) /\ k < j)})
      at(r) == CHOOSE j \in 1..Len(store) : rank(j) = r
      hits == 1..Min(n_results, Len(store))
  IN [documents |-> [r \in hits |-> store[at(r)].document],
      metadatas |-> [r \in hits |-> store[at(r)].metadata],
      distances |-> [r \in hits |-> d[at(r)]]]

\* chromadb's collection.query for one query embedding: the n_results entries
\* nearest to it, nearest first (the inner lists of the result).
ChromaQuery(store, query_embedding, n_results) ==
  NearestFirst(store, Distances(store, query_embedding, 1), n_results)

\* collection.get()
ChromaGet(store) ==
  [documents |-> [j \in 1..Len(store) |-> store[j].document],
   metadatas |-> [j \in 1..Len(store) |-> store[j].metadata]]

\* query_documents without the slice [:n_results]
FallbackQueryAll(store, n_results) ==
  [documents |-> [r \in 1..Len(store) |-> store[r].document],
   metadatas |-> [r \in 1..Len(store) |-> store[r].metadata],
   distances |-> [r \in 1..Len(store) |-> <<1, 2>>]]

\* ChromaDBWrapper.query_documents with use_fallback: the first n_results
\* values of the dict, each at the distance 0.5.
FallbackQuery(store, n_results) ==
  LET search_results == Take(store, n_results)
  IN [documents |-> [r \in 1..Len(search_results) |-> search_results[r].document],
      metadatas |-> [r \in 1..Len(search_results) |-> search_results[r].metadata],
      distances |-> [r \in 1..Len(search_results) |-> <<1, 2>>]]

(***************************************************************************)
(* add_document.  A raise inside its try block is caught: False.           *)
(***************************************************************************)
\* The text add_document goes on with, or "" when it returns False early.
AcceptedTextUnchecked(d, name) ==
  IF ~FileExists(name) THEN "" ELSE extract_text_from_file(d, name)

AcceptedText(d, name) ==
  IF ~FileExists(name) THEN ""
  ELSE LET text == extract_text_from_file(d, name)
       IN IF text = "" \/ StartsWith(text, "Error") THEN "" ELSE text

(***************************************************************************)
(* add_url_to_knowledge_base and train_from_url_list.                      *)
(***************************************************************************)
\* The sites the knowledge base is trained from.
SiteKinds == {"plain", "html_retry", "disallowed", "down", "short"}

SiteOf(kind) ==
  [robots       |-> IF kind = "disallowed" THEN "disallows" ELSE "allows",
   first        |-> CASE kind = "html_retry" -> "ssl_error"
                      [] kind = "down" -> "connection_error"
                      [] OTHER -> "ok",
   second       |-> "ok",
   content_type |-> IF kind = "html_retry" THEN "Text/HTML; charset=utf-8"
                    ELSE "text/plain",
   text         |-> IF kind = "short" THEN "HVAC." ELSE PageText]

MinUrlTextLength == 100

\* The text add_url_to_knowledge_base goes on with, or "" when it returns
\* False early.
AcceptedUrlText(url, site) ==
  LET text == extract_text_from_url(url, site).value
  IN IF StartsWith(text, "Error") \/ Len(Strip(text)) < MinUrlTextLength
     THEN "" ELSE text

\* The chunks add_url_to_knowledge_base makes of every URL on every site,
\* computed once; none when it returns False early.
WebChunks ==
  [url \in Urls |->
     [kind \in SiteKinds |->
        chunk_text(AcceptedUrlText(url, SiteOf(kind)), DefaultChunkSize, DefaultOverlap)]]

\* The queries the process can be asked.
Queries ==
  {"", "  ", "HVAC", "filter", "lighting schedule", "replaced every 3 months",
   "keycard reader", "smart lighting"}

\* simple_embedding of every text the process embeds, under every hash seed,
\* computed once.
StoredTexts ==
  UNION {LET chunks == chunk_text(AcceptedText(d, name), DefaultChunkSize,
                                  DefaultOverlap)
         IN {chunks[i] : i \in 1..Len(chunks)} : d \in Disks, name \in FileNames}
  \cup UNION {{WebChunks[url][kind][i] : i \in 1..Len(WebChunks[url][kind])} :
                url \in Urls, kind \in SiteKinds}

EmbeddingTable ==
  [seed \in 0..MaxSeed |-> [text \in Queries \cup StoredTexts |-> simple_embedding(seed, text)]]


ChunkEntries(seed, name, chunks) ==
  [i \in 1..Len(chunks) |->
     [id        |-> Stem(name) \o "_" \o ToString(i - 1),
      document  |-> chunks[i],
      metadata  |-> [filename |-> name, file_type |-> Suffix(name),
                     chunk_index |-> i - 1,
                     chunk_id |-> Stem(name) \o "_" \o ToString(i - 1)],
      embedding |-> EmbeddingTable[seed][chunks[i]]]]

add_document(name, add_raises) ==
  /\ LET text == AcceptedText(disk, name)
         entries == ChunkEntries(hashseed, name,
                                 chunk_text(text, DefaultChunkSize, DefaultOverlap))
         stored == text # "" /\ ~add_raises
     IN /\ fallback_storage' = IF stored /\ use_fallback
                               THEN DictPutAll(fallback_storage, entries, 1)
                               ELSE fallback_storage
        /\ chroma' = IF stored /\ ~use_fallback
                     THEN ChromaAdd(chroma, entries, 1) ELSE chroma
        /\ ingested' = IF stored THEN ingested \cup {name} ELSE ingested
        /\ ret' = [op |-> "add_document", file |-> name, raised |-> FALSE,
                   storage_raised |-> add_raises, value |-> stored,
                   again |-> name \in ingested]  \* history: ingested before
  /\ pc' = "returned"
  /\ UNCHANGED <<impl, client, collection, use_fallback, chromadb_available,
                 sqlite3_module, hashseed, disk, attempts>>
  /\ UNCHANGED <<ck, em, qi, ux, sc>>

\* collection.add of chromadb can raise; the dict of tier D cannot.
AddDocument ==
  /\ pc = "ready"
  /\ \E name \in FileNames, add_raises \in BOOLEAN :
       /\ add_raises => (~use_fallback /\ AcceptedText(disk, name) # "")
       /\ add_document(name, add_raises)
  /\ UNCHANGED wt

\* The file system event the watcher of auto_training.py reports: a file is
\* rewritten on disk.
ModifyFile ==
  /\ pc = "ready"
  /\ \E d \in Disks :
       /\ \E name \in FileNames : d[name] # disk[name]
       /\ disk' = d
  /\ UNCHANGED <<impl, pc, client, collection, use_fallback, chromadb_available,
                 fallback_storage, sqlite3_module, chroma, hashseed, attempts,
                 ingested, ret>>
  /\ UNCHANGED <<ck, em, qi, ux, sc, wt>>

(***************************************************************************)
(* The file watchers.  AutoTrainingHandler (auto_training.py) and          *)
(* SmartBuildingAutoTrainer (simple_auto_trainer.py) receive the created   *)
(* and modified events of the watched directory one at a time and call     *)
(* train_on_file, which calls add_document of a streamlit_app knowledge    *)
(* base.  The clock counts whole seconds; time.sleep(1) takes one second   *)
(* and train_on_file starts at the time its handler calls it.              *)
(***************************************************************************)
MaxClock == 6

\* The files events are reported for.
WatchedNames ==
  {"hvac.txt", "notes.log", "~temp.docx", ".hidden.pdf", "notes.bak.txt",
   "training_log.json"}

\* AutoTrainingHandler.should_train_on_file
should_train_on_file(file_path) ==
  /\ Suffix(Lower(file_path))
       \in {".pdf", ".docx", ".doc", ".txt", ".json", ".md", ".csv", ".xlsx"}
  /\ ~(StartsWith(file_path, "~") \/ StartsWith(file_path, "."))
  /\ ~(Contains(file_path, ".bak") \/ Contains(file_path, ".tmp"))

\* SmartBuildingAutoTrainer.handle_file_event, up to the check of the
\* extension
SimpleShouldTrain(file_name) ==
  /\ file_name \notin {"training_log.json", "iic_training_log.json",
                       "iic_query_test_results.json", ".DS_Store", "Thumbs.db",
                       "desktop.ini"}
  /\ ~(StartsWith(file_name, "~") \/ StartsWith(file_name, "."))
  /\ Lower(Suffix(file_name))
       \in {".pdf", ".docx", ".doc", ".txt", ".json", ".md", ".csv", ".xlsx"}

TrainingDelayAuto == 5
TrainingDelaySimple == 3

\* The handler goes on to train_on_file after sleeping `slept` seconds,
\* having recorded the time of the event in last_training or not;
\* train_on_file calls add_document.
TrainOnFile(file_path, recorded, slept, add_raises) ==
  /\ wt.now + slept <= MaxClock
  /\ LET Set(dict, value) ==
           [k \in DOMAIN dict \cup {file_path} |->
              IF k = file_path THEN value ELSE dict[k]]
     IN wt' = [wt EXCEPT !.now = wt.now + slept,
                         !.last_training = IF recorded
                                           THEN Set(wt.last_training, wt.now)
                                           ELSE wt.last_training,
                         !.started = Set(wt.started, wt.now + slept)]
  /\ add_raises => (~use_fallback /\ AcceptedText(disk, file_path) # "")
  /\ add_document(file_path, add_raises)

\* AutoTrainingHandler.on_modified, for an event that leads to training:
\* not one that comes less than training_delay seconds after the time
\* recorded for the path
OnModified ==
  /\ pc = "ready" /\ wt.handler = "AutoTrainingHandler"
  /\ \E file_path \in WatchedNames, add_raises \in BOOLEAN :
       /\ should_train_on_file(file_path)
       /\ ~(/\ file_path \in DOMAIN wt.last_training
            /\ wt.now - wt.last_training[file_path] < TrainingDelayAuto)
       /\ TrainOnFile(file_path, TRUE, 0, add_raises)

\* AutoTrainingHandler.on_created, for an event that leads to training
OnCreated ==
  /\ pc = "ready" /\ wt.handler = "AutoTrainingHandler"
  /\ \E file_path \in WatchedNames, add_raises \in BOOLEAN :
       /\ should_train_on_file(file_path)
       /\ TrainOnFile(file_path, FALSE, 1, add_raises)

\* SmartBuildingAutoTrainer.on_created and on_modified, which both call
\* handle_file_event, for an event that leads to training
HandleFileEvent ==
  /\ pc = "ready" /\ wt.handler = "SmartBuildingAutoTrainer"
  /\ \E file_path \in WatchedNames, add_raises \in BOOLEAN :
       /\ SimpleShouldTrain(file_path)
       /\ ~(/\ file_path \in DOMAIN wt.last_training
            /\ wt.now - wt.last_training[file_path] < TrainingDelaySimple)
       /\ TrainOnFile(file_path, TRUE, 1, add_raises)

\* A second passes with no event.  (An event that does not lead to training
\* changes nothing: the handler returns.)
Tick ==
  /\ pc = "ready" /\ wt.now < MaxClock
  /\ wt' = [wt EXCEPT !.now = wt.now + 1]
  /\ UNCHANGED <<ck, em, qi, ux, sc, kbVars>>

\* An operation that changes no field of the knowledge base returns.
KBFrame ==
  /\ pc' = "returned"
  /\ UNCHANGED <<impl, client, collection, use_fallback, chromadb_available,
                 fallback_storage, sqlite3_module, chroma, hashseed, disk, attempts, ingested>>
  /\ UNCHANGED <<ck, em, qi, ux, sc, wt>>

\* hashlib.md5(url.encode()).hexdigest()[:8]
UrlHash(url) ==
  CASE url = "https://a.example/hvac" -> "7e90776f"
    [] url = "http://www.b.example/feed" -> "b75f778f"

\* urllib.parse.urlparse(url).netloc
Netloc(url) ==
  LET a == CHOOSE i \in 1..Len(url) : SubSeq(url, i, i + 2) = "://"
      rest == SubSeq(url, a + 3, Len(url))
      slashes == {i \in 1..Len(rest) : CharAt(rest, i) = "/"}
  IN IF slashes = {} THEN rest
     ELSE SubSeq(rest, 1, (CHOOSE i \in slashes : \A j \in slashes : i <= j) - 1)

WebEntries(seed, url, category, chunks) ==
  [i \in 1..Len(chunks) |->
     [id        |-> "web_" \o UrlHash(url) \o "_" \o ToString(i - 1),
      document  |-> chunks[i],
      metadata  |-> [source_url |-> url, domain |-> Netloc(url),
                     source_type |-> "web_content", category |-> category,
                     chunk_index |-> i - 1,
                     chunk_id |-> "web_" \o UrlHash(url) \o "_" \o ToString(i - 1)],
      embedding |-> EmbeddingTable[seed][chunks[i]]]]

\* add_url_to_knowledge_base on the stores st: the stores after it and the
\* value it returns.  A raise inside its try block is caught: False.
add_url_to_knowledge_base(st, url, kind, category, add_raises) ==
  LET Add(entries, stored) ==
        [chroma |-> IF stored /\ ~use_fallback
                    THEN ChromaAdd(st.chroma, entries, 1) ELSE st.chroma,
         fallback_storage |-> IF stored /\ use_fallback
                              THEN DictPutAll(st.fallback_storage, entries, 1)
                              ELSE st.fallback_storage,
         value |-> stored]
  IN Add(WebEntries(hashseed, url, category, WebChunks[url][kind]),
         WebChunks[url][kind] # <<>> /\ ~add_raises)

\* One iteration of the loop of train_from_url_list.  AutoGenAI counts the
\* URL as successful and then reads the collection, inside the try block of
\* the iteration; streamlit_app only records the URL.
TrainIter(st, url, e) ==
  LET Count(added, get_raised) ==
        [chroma |-> added.chroma,
         fallback_storage |-> added.fallback_storage,
         calls |-> Append(st.calls, url),
         added |-> IF added.value THEN st.added \cup {url} ELSE st.added,
         successful |-> st.successful + (IF added.value THEN 1 ELSE 0),
         failed |-> st.failed + (IF ~added.value \/ get_raised THEN 1 ELSE 0),
         total_chunks |->
           IF added.value /\ impl = "AutoGenAI" /\ ~get_raised
           THEN st.total_chunks
                  + Cardinality({i \in 1..Len(added.chroma) :
                       /\ "source_url" \in DOMAIN added.chroma[i].metadata
                       /\ added.chroma[i].metadata.source_url = url})
           ELSE st.total_chunks]
  IN Count(add_url_to_knowledge_base(st, url, e.kind, "web_training", e.add_raises),
           impl = "AutoGenAI" /\ e.get_raises)

RECURSIVE TrainLoop(_, _, _, _)
TrainLoop(st, urls, env, i) ==
  IF i > Len(urls) THEN st
  ELSE TrainLoop(TrainIter(st, urls[i], env[i]), urls, env, i + 1)

MaxUrls == 2

\* env is what the network and the storage do for each URL of the list: the
\* storage add of chromadb can raise, and so can collection.get(), which
\* AutoGenAI calls in the loop and streamlit_app's count_documents after it,
\* answering 0 when it raises.
TrainFromUrlList ==
  /\ pc = "ready"
  /\ \E n \in 0..MaxUrls, count_raises \in BOOLEAN :
       \E urls \in [1..n -> Urls],
          env \in [1..n ->
                    {e \in [kind : SiteKinds, add_raises : BOOLEAN,
                            get_raises : BOOLEAN] :
                       /\ e.add_raises =>
                            (~use_fallback /\ e.kind \in {"plain", "html_retry"})
                       /\ e.get_raises =>
                            (/\ impl = "AutoGenAI" /\ ~e.add_raises
                             /\ e.kind \in {"plain", "html_retry"})}] :
         \E st \in {TrainLoop([chroma |-> chroma, fallback_storage |-> fallback_storage,
                               calls |-> <<>>, added |-> {},
                               successful |-> 0, failed |-> 0,
                               total_chunks |-> 0], urls, env, 1)} :
           /\ count_raises => (impl = "streamlit_app" /\ ~use_fallback)
           /\ chroma' = st.chroma
           /\ fallback_storage' = st.fallback_storage
           /\ ingested' = ingested \cup st.added
           /\ ret' = [op |-> "train_from_url_list", urls |-> urls, raised |-> FALSE,
                      calls |-> st.calls,
                      successful |-> st.successful, failed |-> st.failed,
                      total_chunks |-> IF impl = "AutoGenAI" THEN st.total_chunks
                                       ELSE IF use_fallback THEN Len(st.fallback_storage)
                                       ELSE IF count_raises THEN 0
                                       ELSE Len(st.chroma)]
  /\ pc' = "returned"
  /\ UNCHANGED <<impl, client, collection, use_fallback, chromadb_available,
                 sqlite3_module, hashseed, disk, attempts>>
  /\ UNCHANGED <<ck, em, qi, ux, sc, wt>>

(***************************************************************************)
(* get_knowledge_base_stats, a function of each module that reads the      *)
(* collection through the attribute `collection` of the knowledge base.    *)
(***************************************************************************)
\* the attributes __init__ gives the knowledge base
KBAttributes ==
  IF impl = "streamlit_app" THEN {"chromadb_wrapper", "use_fallback", "session"}
  ELSE {"client", "collection", "session"}

\* Reading an attribute the object lacks raises AttributeError, and
\* collection.get() can raise; both are caught and an error string returned.
\* AutoGenAI counts the file names of the chunks that have one;
\* streamlit_app the domain of a web chunk and the file name of another,
\* 'Unknown file' when it has none.
get_knowledge_base_stats(get_raises) ==
  LET m(i) == chroma[i].metadata
      unique_files ==
        {m(i).filename : i \in {j \in 1..Len(chroma) : "filename" \in DOMAIN m(j)}}
      unique_sources ==
        {IF "source_type" \in DOMAIN m(i) /\ m(i).source_type = "web_content"
         THEN m(i).domain
         ELSE IF "filename" \in DOMAIN m(i) THEN m(i).filename
         ELSE "Unknown file" : i \in 1..Len(chroma)}
  IN IF "collection" \notin KBAttributes \/ get_raises
     THEN [kind |-> "error"]
     ELSE [kind |-> "stats", chunks |-> Len(chroma),
           unique |-> IF impl = "streamlit_app" THEN Cardinality(unique_sources)
                      ELSE Cardinality(unique_files)]

GetStats ==
  /\ pc = "ready"
  /\ \E get_raises \in BOOLEAN :
       /\ get_raises => "collection" \in KBAttributes
       /\ ret' = [op |-> "get_knowledge_base_stats", raised |-> FALSE,
                  storage_raised |-> get_raises,
                  value |-> get_knowledge_base_stats(get_raises)]
  /\ KBFrame

(***************************************************************************)
(* search_documents.  The body of its try block yields [raised, value,     *)
(* divisors]: whether it raised, the list it built, and the divisors of    *)
(* the divisions it evaluated.                                             *)
(***************************************************************************)
\* set(s.lower().split())
WordSet(s) == LET words == Split(Lower(s)) IN {words[i] : i \in 1..Len(words)}

ToResults(results) ==
  [i \in 1..Len(results.documents) |->
     [content  |-> results.documents[i],
      metadata |-> results.metadatas[i],
      distance |-> results.distances[i]]]

Raised == [raised |-> TRUE, value |-> <<>>, divisors |-> <<>>]

Returned(value, divisors) == [raised |-> FALSE, value |-> value, divisors |-> divisors]

\* streamlit_app: the wrapper's query, then the conversion of its result
SearchBodyStreamlit(query, n_results, query_raises) ==
  IF use_fallback
  THEN Returned(ToResults(FallbackQuery(fallback_storage, n_results)), <<>>)
  ELSE IF query_raises THEN Raised
  ELSE Returned(ToResults(ChromaQuery(chroma, EmbeddingTable[hashseed][query],
                                      n_results)), <<>>)

\* the scan without `if overlap > 0`
KeywordScanUnfiltered(store, query, n_results) ==
  LET all_docs == ChromaGet(store)
      query_words == WordSet(query)
      score == [j \in 1..Len(all_docs.documents) |->
                  Cardinality(query_words \cap WordSet(all_docs.documents[j]))]
      kept == 1..Len(all_docs.documents)
      rank(j) == 1 + Cardinality({k \in kept :
                        score[k] > score[j] \/ (score[k] = score[j] /\ k < j)})
      at(r) == CHOOSE j \in kept : rank(j) = r
      top == 1..Min(n_results, Cardinality(kept))
      nq == Cardinality(query_words)
  IN IF top # {} /\ nq = 0 THEN Raised
     ELSE Returned([r \in top |->
                      [content  |-> all_docs.documents[at(r)],
                       metadata |-> all_docs.metadatas[at(r)],
                       distance |-> <<nq - score[at(r)], nq>>]],
                   [r \in top |-> nq])

\* the scan scoring every occurrence of a query word in the chunk
KeywordScanOccurrences(store, query, n_results) ==
  LET all_docs == ChromaGet(store)
      query_words == WordSet(query)
      score == [j \in 1..Len(all_docs.documents) |->
                  LET doc_words == Split(Lower(all_docs.documents[j]))
                  IN Cardinality({w \in 1..Len(doc_words) :
                                    doc_words[w] \in query_words})]
      kept == {j \in 1..Len(all_docs.documents) : score[j] > 0}
      rank(j) == 1 + Cardinality({k \in kept :
                        score[k] > score[j] \/ (score[k] = score[j] /\ k < j)})
      at(r) == CHOOSE j \in kept : rank(j) = r
      top == 1..Min(n_results, Cardinality(kept))
      nq == Cardinality(query_words)
  IN IF top # {} /\ nq = 0 THEN Raised
     ELSE Returned([r \in top |->
                      [content  |-> all_docs.documents[at(r)],
                       metadata |-> all_docs.metadatas[at(r)],
                       distance |-> <<nq - score[at(r)], nq>>]],
                   [r \in top |-> nq])

\* AutoGenAI: the keyword scan over collection.get() that runs when the
\* embedding query returned no document.  1.0 - score / len(query_words)
\* raises ZeroDivisionError when query_words is empty.
KeywordScan(store, query, n_results) ==
  LET all_docs == ChromaGet(store)
      query_words == WordSet(query)
      score == [j \in 1..Len(all_docs.documents) |->
                  Cardinality(query_words \cap WordSet(all_docs.documents[j]))]
      kept == {j \in 1..Len(all_docs.documents) : score[j] > 0}
      rank(j) == 1 + Cardinality({k \in kept :
                        score[k] > score[j] \/ (score[k] = score[j] /\ k < j)})
      at(r) == CHOOSE j \in kept : rank(j) = r
      top == 1..Min(n_results, Cardinality(kept))
      nq == Cardinality(query_words)
  IN IF top # {} /\ nq = 0 THEN Raised
     ELSE Returned([r \in top |->
                      [content  |-> all_docs.documents[at(r)],
                       metadata |-> all_docs.metadatas[at(r)],
                       distance |-> <<nq - score[at(r)], nq>>]],
                   [r \in top |-> nq])

SearchBodyAutoGen(query, n_results, query_raises) ==
  IF query_raises THEN Raised
  ELSE LET results == ChromaQuery(chroma, EmbeddingTable[hashseed][query], n_results)
       IN IF Len(results.documents) = 0
          THEN KeywordScan(chroma, query, n_results)
          ELSE Returned(ToResults(results), <<>>)

SearchBody(query, n_results, query_raises) ==
  IF impl = "streamlit_app" THEN SearchBodyStreamlit(query, n_results, query_raises)
  ELSE SearchBodyAutoGen(query, n_results, query_raises)

search_documents_uncaught(query, n_results, query_raises) ==
  SearchBody(query, n_results, query_raises)

\* try: ... except Exception: return []
search_documents(query, n_results, query_raises) ==
  LET body == SearchBody(query, n_results, query_raises)
  IN IF body.raised THEN Returned(<<>>, body.divisors) ELSE body

\* The storage query of chromadb can raise; the dict of tier D cannot.
CanRaise(query_raises) == query_raises => ~use_fallback

SearchDocuments ==
  /\ pc = "ready"
  /\ \E query \in Queries, n_results \in 1..MaxResults, query_raises \in BOOLEAN :
       /\ CanRaise(query_raises)
       /\ LET out == search_documents(query, n_results, query_raises)
          IN ret' = [op |-> "search_documents", query |-> query,
                     n_results |-> n_results, storage_raised |-> query_raises,
                     raised |-> out.raised, value |-> out.value,
                     divisors |-> out.divisors]
  /\ KBFrame

\* ChromaDBWrapper.query_documents, called with the embedding of a query:
\* the inner lists of the dict it returns.  Nothing catches what
\* collection.query raises.
QueryDocuments ==
  /\ pc = "ready"
  /\ impl = "streamlit_app"
  /\ \E query \in Queries, n_results \in 1..MaxResults, query_raises \in BOOLEAN :
       /\ CanRaise(query_raises)
       /\ ret' = [op |-> "query_documents", query |-> query,
                  n_results |-> n_results, storage_raised |-> query_raises,
                  raised |-> query_raises,
                  value |-> IF use_fallback
                            THEN FallbackQuery(fallback_storage, n_results)
                            ELSE IF query_raises THEN <<>>
                            ELSE ChromaQuery(chroma, EmbeddingTable[hashseed][query],
                                             n_results)]
  /\ KBFrame

(***************************************************************************)
(* Query classification and the synthesis of a context from the retrieved  *)
(* chunks.                                                                 *)
(***************************************************************************)
\* get_context_for_query: the if/elif chain that files a retrieved chunk under
\* the first category one of whose terms occurs in its lower-cased content.
ContentKeywords ==
  <<[topic |-> "hvac",
     keywords |-> <<"hvac", "heating", "cooling", "ventilation", "temperature",
                      "thermostat", "ac", "air conditioning", "climate">>],
    [topic |-> "lighting",
     keywords |-> <<"lighting", "led", "bulb", "illumination", "brightness",
                      "light", "lamp">>],
    [topic |-> "energy",
     keywords |-> <<"energy", "power", "consumption", "efficiency", "kwh",
                      "electricity", "electrical", "meter">>],
    [topic |-> "safety",
     keywords |-> <<"safety", "fire", "emergency", "alarm", "smoke", "detector",
                      "co2">>],
    [topic |-> "security",
     keywords |-> <<"security", "camera", "lock", "access", "motion",
                      "surveillance">>],
    [topic |-> "room",
     keywords |-> <<"room", "floor", "classroom", "capacity", "space">>],
    [topic |-> "equipment",
     keywords |-> <<"equipment", "device", "sensor", "monitor", "controller">>],
    [topic |-> "maintenance",
     keywords |-> <<"maintenance", "repair", "service", "technician", "install">>],
    [topic |-> "automation",
     keywords |-> <<"automation", "smart", "control", "system", "iot">>],
    [topic |-> "environmental",
     keywords |-> <<"environmental", "air quality", "humidity", "moisture",
                      "leak">>],
    [topic |-> "cost",
     keywords |-> <<"cost", "budget", "money", "expense", "financial",
                      "savings">>]>>

\* determine_query_intent: intent_keywords, in the order of the dict.
IntentKeywords ==
  <<[topic |-> "hvac",
     keywords |-> <<"hvac", "heating", "cooling", "temperature", "thermostat",
                      "ac", "air conditioning", "climate", "ventilation">>],
    [topic |-> "lighting",
     keywords |-> <<"lighting", "lights", "illumination", "led", "bulb",
                      "brightness", "lamp", "dimmer">>],
    [topic |-> "energy",
     keywords |-> <<"energy", "power", "efficiency", "consumption", "electricity",
                      "kwh", "meter", "electrical">>],
    [topic |-> "safety",
     keywords |-> <<"safety", "fire", "emergency", "smoke", "detector", "alarm",
                      "co2", "carbon monoxide">>],
    [topic |-> "security",
     keywords |-> <<"security", "camera", "lock", "access", "surveillance",
                      "motion", "intrusion", "keycard">>],
    [topic |-> "automation",
     keywords |-> <<"automation", "smart", "control", "system", "iot",
                      "integration", "automated">>],
    [topic |-> "room",
     keywords |-> <<"room", "floor", "classroom", "capacity", "space", "occupancy",
                      "booking">>],
    [topic |-> "equipment",
     keywords |-> <<"equipment", "device", "sensor", "monitor", "controller",
                      "hardware">>],
    [topic |-> "maintenance",
     keywords |-> <<"maintenance", "repair", "service", "technician", "install",
                      "filter", "replace">>],
    [topic |-> "environmental",
     keywords |-> <<"environmental", "air quality", "humidity", "moisture", "leak",
                      "water", "indoor air">>],
    [topic |-> "cost",
     keywords |-> <<"cost", "budget", "money", "expense", "financial", "savings",
                      "roi", "payback">>]>>

\* streamlit_app's get_context_for_query: the terms of the if/elif chain over
\* the query, in the order of the chain.
BranchKeywords ==
  <<[topic |-> "hvac",
     keywords |-> <<"hvac", "heating", "cooling", "temperature", "thermostat",
                      "ac", "air conditioning", "climate">>],
    [topic |-> "lighting",
     keywords |-> <<"lighting", "lights", "illumination", "led", "bulb",
                      "brightness">>],
    [topic |-> "energy",
     keywords |-> <<"energy", "power", "efficiency", "consumption", "electricity",
                      "kwh">>],
    [topic |-> "safety",
     keywords |-> <<"safety", "fire", "emergency", "smoke", "detector", "alarm",
                      "co2">>],
    [topic |-> "security",
     keywords |-> <<"security", "camera", "lock", "access", "surveillance",
                      "motion">>],
    [topic |-> "automation",
     keywords |-> <<"automation", "smart", "control", "system", "iot",
                      "integration">>],
    [topic |-> "room",
     keywords |-> <<"room", "floor", "classroom", "capacity", "space",
                      "occupancy">>],
    [topic |-> "equipment",
     keywords |-> <<"equipment", "device", "sensor", "monitor", "controller">>],
    [topic |-> "maintenance",
     keywords |-> <<"maintenance", "repair", "service", "technician", "install",
                      "filter">>],
    [topic |-> "environmental",
     keywords |-> <<"environmental", "air quality", "humidity", "moisture", "leak",
                      "water">>],
    [topic |-> "cost",
     keywords |-> <<"cost", "budget", "money", "expense", "financial",
                      "savings">>]>>

\* AutoGenAI's get_context_for_query: the terms of its independent `if`s over
\* the query, in the order of the code.
AdvisoryKeywords ==
  <<[topic |-> "hvac",
     keywords |-> <<"hvac", "heating", "cooling", "temperature", "thermostat",
                      "ac", "air conditioning", "climate">>],
    [topic |-> "lighting",
     keywords |-> <<"lighting", "lights", "illumination", "led", "bulb",
                      "brightness">>],
    [topic |-> "energy",
     keywords |-> <<"energy", "power", "efficiency", "consumption", "electricity",
                      "kwh">>],
    [topic |-> "safety",
     keywords |-> <<"safety", "fire", "emergency", "smoke", "detector", "alarm",
                      "co2">>],
    [topic |-> "security",
     keywords |-> <<"security", "camera", "lock", "access", "surveillance",
                      "motion">>],
    [topic |-> "room",
     keywords |-> <<"room", "floor", "classroom", "capacity", "space",
                      "occupancy">>],
    [topic |-> "equipment",
     keywords |-> <<"equipment", "device", "sensor", "monitor", "controller",
                      "smart">>],
    [topic |-> "maintenance",
     keywords |-> <<"maintenance", "repair", "service", "technician", "install",
                      "filter">>],
    [topic |-> "automation",
     keywords |-> <<"automation", "smart", "control", "system", "iot",
                      "integration">>],
    [topic |-> "environmental",
     keywords |-> <<"environmental", "air quality", "humidity", "moisture", "leak",
                      "water">>],
    [topic |-> "cost",
     keywords |-> <<"cost", "budget", "money", "expense", "financial", "savings">>],
    [topic |-> "building",
     keywords |-> <<"building", "name", "location", "floors", "rooms",
                      "information", "overview">>],
    [topic |-> "ai",
     keywords |-> <<"ai", "machine learning", "ml", "neural network", "algorithm",
                      "prediction", "analytics">>],
    [topic |-> "cybersecurity",
     keywords |-> <<"cybersecurity", "security", "privacy", "encryption", "hack",
                      "cyber", "vulnerability">>],
    [topic |-> "digital_twin",
     keywords |-> <<"digital twin", "simulation", "model", "virtual", "twin",
                      "digital model">>],
    [topic |-> "retrofit",
     keywords |-> <<"retrofit", "modernization", "upgrade", "renovation", "legacy",
                      "old system">>],
    [topic |-> "regulation",
     keywords |-> <<"regulation", "compliance", "code", "standard", "permit",
                      "inspection", "ada", "osha">>],
    [topic |-> "benchmark",
     keywords |-> <<"benchmark", "performance", "kpi", "metrics", "comparison",
                      "standard", "rating">>],
    [topic |-> "emergency",
     keywords |-> <<"emergency", "disaster", "crisis", "backup", "resilience",
                      "continuity", "evacuation">>],
    [topic |-> "wellness",
     keywords |-> <<"wellness", "comfort", "satisfaction", "occupant",
                      "experience", "productivity", "health">>],
    [topic |-> "predictive",
     keywords |-> <<"predictive", "analytics", "forecast", "trend", "pattern",
                      "anomaly", "detection">>]>>

\* AutoGenAI's search_building_knowledge: the terms of its recommendations.
RecommendationKeywords ==
  <<[topic |-> "hvac",
     keywords |-> <<"temperature", "heating", "cooling", "hvac">>],
    [topic |-> "lighting",
     keywords |-> <<"lighting", "lights">>],
    [topic |-> "energy",
     keywords |-> <<"energy", "power">>],
    [topic |-> "security",
     keywords |-> <<"security", "access control", "surveillance">>],
    [topic |-> "maintenance",
     keywords |-> <<"maintenance", "repair", "service">>],
    [topic |-> "automation",
     keywords |-> <<"automation", "smart building", "iot">>]>>

AnyIn(keywords, s) == \E i \in 1..Len(keywords) : Contains(s, keywords[i])

\* The topic of the first entry of the table one of whose terms occurs in s;
\* `other` when no entry has one.
FirstTopic(table, s, other) ==
  LET hits == {i \in 1..Len(table) : AnyIn(table[i].keywords, s)}
  IN IF hits = {} THEN other
     ELSE table[CHOOSE i \in hits : \A j \in hits : i <= j].topic

\* score = sum(1 for keyword in keywords if keyword in query_lower), for
\* every intent from the i-th on
RECURSIVE IntentScores(_, _)
IntentScores(query_lower, i) ==
  IF i > Len(IntentKeywords) THEN <<>>
  ELSE <<Cardinality({k \in 1..Len(IntentKeywords[i].keywords) :
                        Contains(query_lower, IntentKeywords[i].keywords[k])})>>
         \o IntentScores(query_lower, i + 1)

\* max(intent_scores, key=intent_scores.get): the first key, in the order of
\* the dict, with the greatest score; 'general' when no intent scored.
HighestScore(score) ==
  LET scored == {i \in 1..Len(score) : score[i] > 0}
  IN IF scored = {} THEN "general"
     ELSE IntentKeywords[CHOOSE i \in scored : \A j \in scored :
                           score[j] < score[i] \/ (score[j] = score[i] /\ i <= j)].topic

\* the first key, in the order of the dict, with any score
FirstScored(score) ==
  LET scored == {i \in 1..Len(score) : score[i] > 0}
  IN IF scored = {} THEN "general"
     ELSE IntentKeywords[CHOOSE i \in scored : \A j \in scored : i <= j].topic

determine_query_intent_first(query_lower) == FirstScored(IntentScores(query_lower, 1))

determine_query_intent(query_lower) == HighestScore(IntentScores(query_lower, 1))

\* The branch the if/elif chain of streamlit_app's get_context_for_query takes:
\* the first whose topic is the intent or one of whose terms is in the query.
BranchTaken(query_intent, query_lower) ==
  LET hits == {i \in 1..Len(BranchKeywords) :
                 \/ query_intent = BranchKeywords[i].topic
                 \/ AnyIn(BranchKeywords[i].keywords, query_lower)}
  IN IF hits = {} THEN "general"
     ELSE BranchKeywords[CHOOSE i \in hits : \A j \in hits : i <= j].topic

\* The category a retrieved chunk is filed under, for every text the store
\* can hold, computed once.
CategoryTable ==
  [content \in StoredTexts |-> FirstTopic(ContentKeywords, Lower(content), "general")]

\* str.split(sep) for a separator of one character
RECURSIVE SplitOnFrom(_, _, _)
SplitOnFrom(s, sep, i) ==
  LET seps == {j \in i..Len(s) : CharAt(s, j) = sep}
  IN IF seps = {} THEN <<SubSeq(s, i, Len(s))>>
     ELSE LET j == CHOOSE k \in seps : \A m \in seps : k <= m
          IN <<SubSeq(s, i, j - 1)>> \o SplitOnFrom(s, sep, j + 1)

MinSentenceLength == 20

\* The sentences of a chunk longer than 20 characters that share a word with
\* the query, each with the number of shared words, in the order of the text.
RECURSIVE ScoredFrom(_, _, _)
ScoredFrom(sentences, query_words, i) ==
  IF i > Len(sentences) THEN <<>>
  ELSE LET sentence == Strip(sentences[i])
           matches == Cardinality(query_words \cap WordSet(sentence))
       IN (IF Len(sentence) > MinSentenceLength /\ matches > 0
           THEN <<[matches |-> matches, divisor |-> Cardinality(query_words),
                   sentence |-> sentence]>>
           ELSE <<>>) \o ScoredFrom(sentences, query_words, i + 1)

\* scored.sort(key=score, reverse=True)[:max_sentences] (the sort is stable)
TopScored(scored, max_sentences) ==
  LET rank(j) == 1 + Cardinality({k \in 1..Len(scored) :
                        \/ scored[k].matches > scored[j].matches
                        \/ scored[k].matches = scored[j].matches /\ k < j})
      at(r) == CHOOSE j \in 1..Len(scored) : rank(j) = r
  IN [r \in 1..Min(max_sentences, Len(scored)) |-> scored[at(r)].sentence]

RECURSIVE Dedup(_, _)
Dedup(seq, seen) ==
  IF seq = <<>> THEN <<>>
  ELSE IF Head(seq) \in seen THEN Dedup(Tail(seq), seen)
  ELSE <<Head(seq)>> \o Dedup(Tail(seq), seen \cup {Head(seq)})

RECURSIVE JoinWith(_, _)
JoinWith(seq, sep) ==
  IF seq = <<>> THEN ""
  ELSE IF Len(seq) = 1 THEN seq[1]
  ELSE seq[1] \o sep \o JoinWith(Tail(seq), sep)

MaxSentences == 3

\* The top sentences of every text the store can hold for every query,
\* computed once.
SentenceTable ==
  [query \in Queries |->
     [content \in StoredTexts |->
        TopScored(ScoredFrom(SplitOnFrom(content, ".", 1), WordSet(query), 1),
                  MaxSentences)]]

RECURSIVE RelevantInfo(_, _, _)
RelevantInfo(content_list, query, i) ==
  IF i > Len(content_list) THEN <<>>
  ELSE SentenceTable[query][content_list[i].content]
         \o RelevantInfo(content_list, query, i + 1)

extract_relevant_content(content_list, query) ==
  JoinWith(Take(Dedup(RelevantInfo(content_list, query, 1), {}), MaxSentences), " ")


(***************************************************************************)
(* get_context_for_query.  The context is the list synthesized_info of its *)
(* paragraphs, each a non-empty string in the code: the returned string is *)
(* empty exactly when the list is.                                         *)
(***************************************************************************)
ContextResultsStreamlit == 20
ContextResultsAutoGen == 15

Advisory(topic) == [kind |-> "advisory", topic |-> topic]

\* streamlit_app: the one branch taken adds the sentences extracted from the
\* chunks of its category (hvac_info, lighting_info, ..., general_info), if
\* any, and then its advisory.
StreamlitParagraphs(search_results, query, branch) ==
  LET items == SelectSeq(search_results, LAMBDA r : CategoryTable[r.content] = branch)
      specific_info == extract_relevant_content(items, query)
  IN (IF items # <<>> /\ specific_info # ""
      THEN <<[kind |-> "specific", topic |-> branch, text |-> specific_info]>>
      ELSE <<>>)
     \o <<Advisory(branch)>>

\* AutoGenAI: every `if` whose terms match adds its advisory.
RECURSIVE AdvisoriesFrom(_, _)
AdvisoriesFrom(query_lower, i) ==
  IF i > Len(AdvisoryKeywords) THEN <<>>
  ELSE (IF AnyIn(AdvisoryKeywords[i].keywords, query_lower)
        THEN <<Advisory(AdvisoryKeywords[i].topic)>> ELSE <<>>)
       \o AdvisoriesFrom(query_lower, i + 1)

AutoGenParagraphs(search_results, web, advisories) ==
  IF web \o advisories # <<>> THEN web \o advisories
  ELSE IF \E i \in 1..Len(search_results) :
            CategoryTable[search_results[i].content]
              \in {"hvac", "lighting", "energy", "general"}
       THEN <<Advisory("building_management")>>
       ELSE <<>>

\* str.replace(sub, "")
RECURSIVE RemoveAll(_, _)
RemoveAll(s, sub) ==
  IF Len(s) < Len(sub) THEN s
  ELSE IF SubSeq(s, 1, Len(sub)) = sub
       THEN RemoveAll(SubSeq(s, Len(sub) + 1, Len(s)), sub)
  ELSE SubSeq(s, 1, 1) \o RemoveAll(SubSeq(s, 2, Len(s)), sub)

MaxWebSentences == 2
MaxWebSentencesAutoGen == 3
MaxWebSources == 2

\* streamlit_app, the loop body of extract_specific_info_from_web_content:
\* the two sentences of a chunk that share the most words with the query,
\* and relevance_score as the number of shared words they have together.
WebKeyInfoStreamlit(content, query) ==
  LET top == TopScored(ScoredFrom(SplitOnFrom(content, ".", 1), WordSet(query), 1),
                       MaxWebSentences)
      matches(sentence) == Cardinality(WordSet(query) \cap WordSet(sentence))
  IN [key_info  |-> top,
      relevance |-> IF top = <<>> THEN 0
                    ELSE IF Len(top) = 1 THEN matches(top[1])
                    ELSE matches(top[1]) + matches(top[2])]

\* AutoGenAI, the loop body: the first three sentences of the chunk that
\* contain a word of the query as a substring, in the order of the text.
WebKeyInfoAutoGen(content, query) ==
  LET pieces == SplitOnFrom(content, ".", 1)
      sentences == [i \in 1..Len(pieces) |-> Strip(pieces[i])]
      query_words == Split(Lower(query))
      relevant(sentence) ==
        /\ Len(sentence) > MinSentenceLength
        /\ \E i \in 1..Len(query_words) : Contains(Lower(sentence), query_words[i])
  IN [key_info  |-> Take(SelectSeq(sentences, relevant), MaxWebSentencesAutoGen),
      relevance |-> 0]

\* The sentences taken from every text the store can hold for every query,
\* computed once.
WebTable ==
  [query \in Queries |->
     [content \in StoredTexts |->
        [streamlit_app |-> WebKeyInfoStreamlit(content, query),
         AutoGenAI     |-> WebKeyInfoAutoGen(content, query)]]]

\* The lines of one source: its domain, its sentences, its URL and an empty
\* line.  streamlit_app ends every sentence with a full stop.
RECURSIVE WebLinesFrom(_, _)
WebLinesFrom(items, i) ==
  IF i > Len(items) THEN <<>>
  ELSE LET item == items[i]
       IN <<[line |-> "domain", text |-> RemoveAll(item.domain, "www.")]>>
          \o [k \in 1..Len(item.key_info) |->
                [line |-> "sentence",
                 text |-> IF impl = "streamlit_app"
                             /\ CharAt(item.key_info[k], Len(item.key_info[k])) # "."
                          THEN item.key_info[k] \o "." ELSE item.key_info[k]]]
          \o <<[line |-> "source", text |-> item.url],
               [line |-> "blank", text |-> ""]>>
          \o WebLinesFrom(items, i + 1)

\* extract_specific_info_from_web_content: the lines of the string it
\* returns.  streamlit_app sorts the sources by relevance_score (the sort
\* is stable) and keeps two; AutoGenAI keeps all in the order retrieved.
extract_specific_info_from_web_content(web_content_info, query) ==
  LET Item(r, info) ==
        [url |-> r.metadata.source_url, domain |-> r.metadata.domain,
         key_info |-> info.key_info, relevance |-> info.relevance]
      \* the chunks some sentence was taken from
      Extracted(items) ==
        LET with == {i \in 1..Len(items) : items[i].key_info # <<>>}
        IN [k \in 1..Cardinality(with) |->
              items[CHOOSE i \in with : Cardinality({j \in with : j < i}) = k - 1]]
      Sorted(extracted_info) ==
        LET rank(j) ==
              1 + Cardinality({k \in 1..Len(extracted_info) :
                    \/ extracted_info[k].relevance > extracted_info[j].relevance
                    \/ /\ extracted_info[k].relevance = extracted_info[j].relevance
                       /\ k < j})
        IN [r \in 1..Len(extracted_info) |->
              extracted_info[CHOOSE j \in 1..Len(extracted_info) : rank(j) = r]]
      Format(extracted_info) ==
        IF impl = "streamlit_app"
        THEN WebLinesFrom(Take(Sorted(extracted_info), MaxWebSources), 1)
        ELSE WebLinesFrom(extracted_info, 1)
  IN Format(Extracted([i \in 1..Len(web_content_info) |->
                         Item(web_content_info[i],
                              WebTable[query][web_content_info[i].content][impl])]))

\* web_content_info holds the retrieved chunks whose metadata says they
\* come from the web.  if web_content_info: ... appends the heading and the
\* lines, ahead of everything else in synthesized_info.
WebParagraphs(search_results, query) ==
  LET Selected(web) ==
        [k \in 1..Cardinality(web) |->
           search_results[CHOOSE i \in web : Cardinality({j \in web : j < i}) = k - 1]]
      Block(web_info) ==
        IF web_info # <<>>
        THEN <<[kind |-> "web heading"], [kind |-> "web", lines |-> web_info]>>
        ELSE <<>>
      Web(web_content_info) ==
        IF web_content_info = <<>> THEN <<>>
        ELSE Block(extract_specific_info_from_web_content(web_content_info, query))
  IN Web(Selected({i \in 1..Len(search_results) :
                     \/ /\ "source_type" \in DOMAIN search_results[i].metadata
                        /\ search_results[i].metadata.source_type = "web_content"
                     \/ "source_url" \in DOMAIN search_results[i].metadata}))

\* What the two implementations derive from the query alone, for every
\* query, computed once.
QueryTable ==
  [query \in Queries |->
     [branch |-> BranchTaken(determine_query_intent(Lower(query)), Lower(query)),
      advisories |-> AdvisoriesFrom(Lower(query), 1)]]

ContextOfUnguarded(search_results, query) ==
  IF impl = "streamlit_app"
  THEN WebParagraphs(search_results, query)
         \o StreamlitParagraphs(search_results, query, QueryTable[query].branch)
  ELSE AutoGenParagraphs(search_results, WebParagraphs(search_results, query),
                         QueryTable[query].advisories)

\* if not search_results: return ""
ContextOf(search_results, query) ==
  IF search_results = <<>> THEN <<>>
  ELSE IF impl = "streamlit_app"
       THEN WebParagraphs(search_results, query)
              \o StreamlitParagraphs(search_results, query, QueryTable[query].branch)
       ELSE AutoGenParagraphs(search_results, WebParagraphs(search_results, query),
                              QueryTable[query].advisories)

ContextResults == IF impl = "streamlit_app" THEN ContextResultsStreamlit
                  ELSE ContextResultsAutoGen

GetContext ==
  /\ pc = "ready"
  /\ \E query \in Queries, query_raises \in BOOLEAN :
       /\ CanRaise(query_raises)
       /\ \E found \in {search_documents(query, ContextResults, query_raises).value} :
            ret' = [op |-> "get_context_for_query", query |-> query,
                    storage_raised |-> query_raises, raised |-> FALSE,
                    found |-> Len(found), value |-> ContextOf(found, query)]
  /\ KBFrame

(***************************************************************************)
(* search_building_knowledge.                                              *)
(***************************************************************************)
NoInformation ==
  IF impl = "streamlit_app"
  THEN "No specific information found in the knowledge base. "
         \o "Try uploading more documents or adding web content."
  ELSE "No specific information found in the knowledge base for this query. "
         \o "Please ensure relevant documentation is available."

SourceResults == 10

\* AutoGenAI: recommendations[0], None when no recommendation applies
RecommendationTable ==
  [query \in Queries |-> FirstTopic(RecommendationKeywords, Lower(query), None)]

\* streamlit_app adds the sources of the chunks a second search returns.
Answer(context, query, sources_raises) ==
  IF context = <<>>
  THEN [kind |-> "no information", text |-> NoInformation]
  ELSE IF impl = "streamlit_app"
       THEN LET SourcesOf(search_results) ==
                  {search_results[i].metadata.filename : i \in 1..Len(search_results)}
            IN [kind |-> "answer", context |-> context,
                sources |-> SourcesOf(search_documents(query, SourceResults,
                                                       sources_raises).value)]
       ELSE [kind |-> "answer", context |-> context,
             recommendation |-> RecommendationTable[query]]

SearchBuildingKnowledge ==
  /\ pc = "ready"
  /\ \E query \in Queries, query_raises \in BOOLEAN, sources_raises \in BOOLEAN :
       /\ CanRaise(query_raises)
       /\ CanRaise(sources_raises)
       /\ sources_raises => impl = "streamlit_app"
       /\ \E found \in {search_documents(query, ContextResults, query_raises).value} :
            ret' = [op |-> "search_building_knowledge", query |-> query,
                    storage_raised |-> query_raises, raised |-> FALSE,
                    found |-> Len(found),
                    value |-> Answer(ContextOf(found, query), query, sources_raises)]
  /\ KBFrame

\* The caller has the returned value and goes on to its next call.
Return ==
  /\ pc = "returned"
  /\ pc' = "ready"
  /\ ret' = NoCall
  /\ UNCHANGED <<impl, client, collection, use_fallback, chromadb_available,
                 fallback_storage, sqlite3_module, chroma, hashseed, disk, attempts, ingested>>
  /\ UNCHANGED <<ck, em, qi, ux, sc, wt>>

\* a function that is not being called
Idle == [pc |-> "idle"]

\* Texts of distinct characters and of one repeated character, the empty
\* text included; overlap ranges over values below and from chunk_size on.
InitChunk ==
  /\ \E text \in {DistinctText(n) : n \in 0..MaxTextLen}
                    \cup {Repeat("a", n) : n \in 1..MaxTextLen},
        size \in 1..MaxChunkSize, ov \in 0..MaxOverlap :
       ck = [pc |-> "loop", text |-> text, chunk_size |-> size, overlap |-> ov,
             start |-> ChunkStart.start, chunks |-> ChunkStart.chunks]
  /\ em = Idle /\ qi = Idle /\ ux = Idle /\ sc = Idle /\ wt = Idle /\ KBIdle

SpecChunk == InitChunk /\ [][ChunkStep \/ ChunkReturn]_vars

EmbedCall ==
  /\ em.pc = "call"
  /\ em' = [em EXCEPT !.pc = "done", !.out = simple_embedding(em.seed, em.text)]
  /\ UNCHANGED <<ck, qi, ux, sc, wt, kbVars>>

\* Texts of a few words, and texts around the cap on the words counted.
InitEmbed ==
  /\ \E phrase \in {"a ", "HVAC-unit 7! ", "?! ", "Ab\tab ", "x1  y2\n"},
        n \in (0..MaxRepeat)
               \cup {MaxWords \div 2, MaxWords \div 2 + 1, MaxWords, MaxWords + 1},
        seed \in 0..MaxSeed :
       em = [pc |-> "call", seed |-> seed, text |-> Repeat(phrase, n), out |-> <<>>]
  /\ ChunkIdle /\ qi = Idle /\ ux = Idle /\ sc = Idle /\ wt = Idle /\ KBIdle

SpecEmbed == InitEmbed /\ [][EmbedCall]_vars

UrlCall ==
  /\ ux.pc = "call"
  /\ \E out \in {extract_text_from_url(ux.url, ux.site)} :
       ux' = [ux EXCEPT !.pc = "done", !.value = out.value, !.events = out.events]
  /\ UNCHANGED <<ck, em, qi, sc, wt, kbVars>>

InitUrl ==
  /\ ChunkIdle /\ em = Idle /\ qi = Idle /\ sc = Idle /\ wt = Idle /\ KBIdle
  /\ \E url \in Urls,
        robots \in {"allows", "disallows", "unreachable",
                    "http_403", "http_404", "http_503"},
        first, second \in {"ok", "ssl_error", "http_error", "connection_error",
                           "other_error"},
        content_type \in {"Text/HTML; charset=utf-8", "application/pdf",
                          "text/plain", "application/atom+xml", ""} :
       ux = [pc |-> "call", url |-> url,
             site |-> [robots |-> robots, first |-> first, second |-> second,
                       content_type |-> content_type, text |-> PageText],
             value |-> "", events |-> <<>>]

SpecUrl == InitUrl /\ [][UrlCall]_vars

\* The queries and the chunks the keyword scan is applied to: words in
\* either case, repeated, and followed by punctuation.
ScanQueries == {"", "HVAC", "hvac filter", "Filter  unit hvac", "lamp", "hvac hvac"}

ScanDocs ==
  {"HVAC filter", "hvac hvac unit", "LED lamp", "Replace the filter.",
   "filter the HVAC unit"}

\* The keyword scan applied to what collection.get() can return: up to
\* MaxScanDocs chunks.
InitScan ==
  /\ ChunkIdle /\ em = Idle /\ qi = Idle /\ ux = Idle /\ wt = Idle /\ KBIdle
  /\ \E n \in 0..MaxScanDocs, n_results \in 1..MaxResults, query \in ScanQueries :
       \E docs \in [1..n -> ScanDocs] :
         sc = [pc |-> "call", query |-> query, n_results |-> n_results,
               store |-> [j \in 1..n |->
                            [document |-> docs[j], metadata |-> [chunk_index |-> j]]],
               out |-> Returned(<<>>, <<>>)]

ScanCall ==
  /\ sc.pc = "call"
  /\ sc' = [sc EXCEPT !.pc = "done",
                       !.out = KeywordScan(sc.store, sc.query, sc.n_results)]
  /\ UNCHANGED <<ck, em, qi, ux, wt, kbVars>>

SpecScan == InitScan /\ [][ScanCall]_vars

(***************************************************************************)
(* determine_query_intent and the branch of get_context_for_query, called  *)
(* on a query.                                                             *)
(***************************************************************************)
ExampleQuery == "What temperature should I set the HVAC?"

\* The example, queries without a keyword, every keyword alone, and queries
\* of two and three words.
IntentQueries ==
  LET words == {"temperature", "smart", "control", "dimmer", "cost", "ventilation",
                "Replace"}
  IN {ExampleQuery, "", "hello there"}
       \cup UNION {{IntentKeywords[i].keywords[k] :
                      k \in 1..Len(IntentKeywords[i].keywords)} :
                   i \in 1..Len(IntentKeywords)}
       \cup {a \o " " \o b : a \in words, b \in words}
       \cup {a \o " " \o b \o " " \o c :
               a \in words, b \in words, c \in {"temperature", "control"}}

Classify ==
  /\ qi.pc = "asked"
  /\ \E query_lower \in {Lower(qi.query)} :
       \E query_intent \in {determine_query_intent(query_lower)} :
         qi' = [pc |-> "classified", query |-> qi.query, query_lower |-> query_lower,
                intent |-> query_intent,
                branch |-> BranchTaken(query_intent, query_lower)]
  /\ UNCHANGED <<ck, em, ux, sc, wt, kbVars>>

InitIntent ==
  /\ \E query \in IntentQueries : qi = [pc |-> "asked", query |-> query]
  /\ ChunkIdle /\ em = Idle /\ ux = Idle /\ sc = Idle /\ wt = Idle /\ KBIdle

SpecIntent == InitIntent /\ [][Classify]_vars

Next ==
  \/ TryPysqlite3
  \/ TryStandard
  \/ TryMemory
  \/ ActivateFallback
  \/ AutoGenConstruct
  \/ AddDocument
  \/ QueryDocuments
  \/ SearchDocuments
  \/ GetContext
  \/ SearchBuildingKnowledge
  \/ GetStats
  \/ Return

Init == KBInit /\ ChunkIdle /\ em = Idle /\ qi = Idle /\ ux = Idle /\ sc = Idle /\ wt = Idle

Spec == Init /\ [][Next]_vars

\* Files are rewritten and ingested again.
SpecReingest ==
  Init /\ [][\/ TryPysqlite3 \/ TryStandard \/ TryMemory \/ ActivateFallback
             \/ AutoGenConstruct
             \/ ModifyFile
             \/ AddDocument
             \/ Return]_vars

\* The process that trains the knowledge base from web pages, asks for
\* context and reads the statistics.
\* The process that watches a directory and trains on the files reported.
InitWatch ==
  /\ KBInit /\ impl = "streamlit_app" /\ hashseed = 0
  /\ ChunkIdle /\ em = Idle /\ qi = Idle /\ ux = Idle /\ sc = Idle
  /\ \E handler \in {"AutoTrainingHandler", "SmartBuildingAutoTrainer"} :
       wt = [handler |-> handler, now |-> 0, last_training |-> <<>>, started |-> <<>>]

SpecWatch ==
  InitWatch /\ [][\/ TryPysqlite3 \/ TryStandard \/ TryMemory \/ ActivateFallback
                  \/ OnModified \/ OnCreated \/ HandleFileEvent \/ Tick
                  \/ Return]_vars

SpecWeb ==
  Init /\ [][\/ TryPysqlite3 \/ TryStandard \/ TryMemory \/ ActivateFallback
             \/ AutoGenConstruct
             \/ TrainFromUrlList
             \/ GetContext
             \/ GetStats
             \/ Return]_vars

(***************************************************************************)
(* Properties of chunk_text.                                               *)
(***************************************************************************)
CeilDiv(a, b) == (a + b - 1) \div b

\* The characters of t at the 0-based positions a .. a+n-1 that exist.
Window(t, a, n) ==
  IF a >= Len(t) THEN "" ELSE SubSeq(t, a + 1, Min(a + n, Len(t)))

ChunkStride == ck.chunk_size - ck.overlap

OverlapInRange == 0 <= ck.overlap /\ ck.overlap < ck.chunk_size

(* C1: with 0 <= overlap < chunk_size, chunk i (from 0) is the window of   *)
(* chunk_size characters starting at i * (chunk_size - overlap), and the   *)
(* call returns ceil(len(text) / (chunk_size - overlap)) chunks.           *)
C1_ChunkWindows ==
  (ck.pc \in {"loop", "done"} /\ OverlapInRange) =>
    /\ \A i \in 1..Len(ck.chunks) :
         ck.chunks[i] = Window(ck.text, (i - 1) * ChunkStride, ck.chunk_size)
    /\ ck.start = Len(ck.chunks) * ChunkStride
    /\ ck.pc = "done" => Len(ck.chunks) = CeilDiv(Len(ck.text), ChunkStride)

C1_Witness ==
  /\ ck.pc = "done"
  /\ OverlapInRange
  /\ ck.overlap > 0
  /\ Len(ck.chunks) >= 3
  /\ Len(ck.chunks[Len(ck.chunks)]) < ck.chunk_size
  /\ ck.text = DistinctText(Len(ck.text))

\* s without its first n characters (all of them when it has fewer).
DropPrefix(s, n) == IF n >= Len(s) THEN "" ELSE SubSeq(s, n + 1, Len(s))

RECURSIVE JoinDedup(_, _, _)
JoinDedup(chunks, overlap, i) ==
  IF i > Len(chunks) THEN ""
  ELSE (IF i = 1 THEN chunks[i] ELSE DropPrefix(chunks[i], overlap))
         \o JoinDedup(chunks, overlap, i + 1)

(* C2: with 0 <= overlap < chunk_size, the chunks joined after dropping    *)
(* from each chunk but the first its leading overlap characters are the    *)
(* original text.                                                          *)
C2_Reconstructs ==
  (ck.pc = "done" /\ OverlapInRange) =>
    JoinDedup(ck.chunks, ck.overlap, 1) = ck.text

C2_Witness ==
  /\ ck.pc = "done"
  /\ OverlapInRange
  /\ ck.overlap >= 2
  /\ Len(ck.chunks) >= 3
  /\ Len(ck.chunks[Len(ck.chunks)]) < ck.overlap
  /\ ck.text = DistinctText(Len(ck.text))

(* C18 as stated: with overlap < chunk_size, every chunk but the last has  *)
(* length exactly chunk_size, and an empty text yields no chunk.           *)
C18_OnlyLastShorter ==
  (ck.pc = "done" /\ OverlapInRange) =>
    /\ \A i \in 1..(Len(ck.chunks) - 1) : Len(ck.chunks[i]) = ck.chunk_size
    /\ ck.text = "" => ck.chunks = <<>>

(* C18 as amended: with overlap < chunk_size, a chunk is shorter than      *)
(* chunk_size only when its window reaches past the end of the text; the   *)
(* shorter chunks are the final ones, none is empty and each is shorter    *)
(* than the one before; with overlap = 0 only the last chunk can be        *)
(* shorter; an empty text yields no chunk.                                 *)
C18_ShortChunksLast ==
  (ck.pc = "done" /\ OverlapInRange) =>
    /\ \A i \in 1..Len(ck.chunks) :
         /\ Len(ck.chunks[i]) \in 1..ck.chunk_size
         /\ Len(ck.chunks[i]) < ck.chunk_size =>
              /\ (i - 1) * ChunkStride + ck.chunk_size > Len(ck.text)
              /\ \A j \in (i + 1)..Len(ck.chunks) :
                   Len(ck.chunks[j]) < Len(ck.chunks[i])
              /\ ck.overlap = 0 => i = Len(ck.chunks)
    /\ ck.text = "" => ck.chunks = <<>>

C18_Witness ==
  /\ ck.pc = "done"
  /\ OverlapInRange
  /\ Len(ck.chunks) >= 4
  /\ Len(ck.chunks[1]) = ck.chunk_size
  /\ Len(ck.chunks[2]) = ck.chunk_size
  /\ Len(ck.chunks[Len(ck.chunks) - 1]) < ck.chunk_size

(* C19: chunk_text terminates for every non-empty text and every          *)
(* chunk_size and overlap, overlap >= chunk_size included.  The loop runs  *)
(* while start < len(text) and each iteration adds chunk_size - overlap to *)
(* start, so the call returns exactly when every iteration moves start     *)
(* forward.                                                                *)
C19_Terminates ==
  [][(ck.pc = "loop" /\ ck'.chunks # ck.chunks) => ck'.start > ck.start]_vars

(***************************************************************************)
(* Properties of simple_embedding.                                         *)
(***************************************************************************)
\* The number of tokens of the cleaned text: the positions where a run of
\* non-whitespace characters begins.
TokenCount(text) ==
  LET clean == StripSpecial(Lower(text))
  IN Cardinality({i \in 1..Len(clean) :
                    /\ ~IsSpaceAt(clean, i)
                    /\ i = 1 \/ IsSpaceAt(clean, i - 1)})

RECURSIVE SumNumerators(_, _, _)
SumNumerators(v, lo, hi) ==
  IF lo > hi THEN 0
  ELSE IF lo = hi THEN v[lo][1]
  ELSE LET m == (lo + hi) \div 2
       IN SumNumerators(v, lo, m) + SumNumerators(v, m + 1, hi)

(* C3: simple_embedding returns 100 non-negative components; with at least *)
(* one token in the cleaned text they sum to 1, the bucket counts summing  *)
(* to min(number of tokens, 100); with no token every component is 0.      *)
C3_EmbeddingShape ==
  em.pc = "done" =>
    LET n == TokenCount(em.text)
    IN /\ Len(em.out) = 100
       /\ \A i \in 1..Len(em.out) : em.out[i][1] >= 0 /\ em.out[i][2] > 0
       /\ n >= 1 =>
            /\ \A i \in 1..Len(em.out) : em.out[i][2] = Min(n, 100)
            /\ SumNumerators(em.out, 1, Len(em.out)) = Min(n, 100)
       /\ n = 0 => \A i \in 1..Len(em.out) : em.out[i][1] = 0

C3_Witness ==
  /\ em.pc = "done"
  /\ TokenCount(em.text) > 100
  /\ Len(StripSpecial(Lower(em.text))) < Len(em.text)
  /\ \E i \in 1..Len(em.out) : em.out[i][1] > 1


(***************************************************************************)
(* Properties of the storage tiers.                                        *)
(***************************************************************************)
TierOrder == <<"A", "B", "C", "D">>

Constructed == pc \in {"ready", "returned"}

\* C4: ChromaDBWrapper tries the tiers in the order A, B, C, D, each at most
\* once and each only after the one before it failed, none after a success;
\* once it is initialised, use_fallback holds iff A, B and C all failed, and
\* otherwise chromadb_available holds and collection is set.
C4_TierOrder ==
  impl = "streamlit_app" =>
    /\ Len(attempts) <= Len(TierOrder)
    /\ \A i \in 1..Len(attempts) :
         /\ attempts[i].tier = TierOrder[i]
         /\ i < Len(attempts) => ~attempts[i].ok
    /\ Constructed =>
         /\ attempts # <<>> /\ attempts[Len(attempts)].ok
         /\ use_fallback <=> (Len(attempts) = 4 /\ \A i \in 1..3 : ~attempts[i].ok)
         /\ use_fallback <=> ~chromadb_available
         /\ ~use_fallback => (chromadb_available /\ collection # None)

C4_Witness ==
  /\ impl = "streamlit_app" /\ pc = "ready"
  /\ Len(attempts) = 3 /\ attempts[3].ok /\ ~use_fallback /\ collection = CollectionName

\* C5: constructing the knowledge base never fails because a storage tier
\* failed to initialise: the failure is caught and construction completes.
C5_ConstructionCompletes == pc # "raised"

\* C20: whenever tier A has failed, at whatever statement, the standard
\* persistent store of tier B is opened with sys.modules['sqlite3'] being the
\* standard driver, not the replacement tier A installed.
C20_TierBUnsubstituted ==
  pc = "tryB" => sqlite3_module = "sqlite3"

StoredCount == IF use_fallback THEN Len(fallback_storage) ELSE Len(chroma)

\* C7: after add_document has ingested a document, search_documents with an
\* exact substring s of its text returns, on every tier and whatever else is
\* stored, at least one result whose content contains s.
C7_RoundTrip ==
  (/\ ret.op = "search_documents"
   /\ ~ret.storage_raised
   /\ \E name \in ingested : Contains(AcceptedText(disk, name), ret.query))
  => \E i \in 1..Len(ret.value) : Contains(ret.value[i].content, ret.query)

\* C8: search_documents never raises to its caller: it returns a list for
\* every query and every collection, no division it evaluates has a zero
\* divisor, and it returns the empty list when the storage query fails.
C8_SearchNeverRaises ==
  ret.op = "search_documents" =>
    /\ ~ret.raised
    /\ \A i \in 1..Len(ret.divisors) : ret.divisors[i] # 0
    /\ ret.storage_raised => ret.value = <<>>
    /\ Len(ret.value) <= ret.n_results

C8_Witness ==
  /\ ret.op = "search_documents" /\ ret.storage_raised /\ StoredCount > 0
  /\ WordSet(ret.query) = {}

\* C9: on an empty knowledge base search_documents returns the empty list,
\* get_context_for_query the empty string and search_building_knowledge the
\* fixed message, none raising; search_building_knowledge returns the message
\* whenever its search returns no result.
C9_EmptyKnowledgeBase ==
  /\ (ret.op = "search_documents" /\ StoredCount = 0) =>
       (~ret.raised /\ ret.value = <<>>)
  /\ (ret.op = "get_context_for_query" /\ StoredCount = 0) =>
       (~ret.raised /\ ret.value = <<>>)
  /\ (ret.op = "search_building_knowledge" /\ (StoredCount = 0 \/ ret.found = 0)) =>
       (~ret.raised /\ ret.value = [kind |-> "no information", text |-> NoInformation])

C9_Witness ==
  /\ ret.op = "search_building_knowledge" /\ StoredCount = 0 /\ ret.query = "HVAC"
  /\ ret.value.kind = "no information"

\* The words a query shares with the chunk at position j of the scanned store.
SharedWords(j) == WordSet(sc.query) \cap WordSet(sc.store[j].document)

\* The position in the scanned store of the chunk returned at rank r.
HitAt(r) == sc.out.value[r].metadata.chunk_index

\* C24: the scan that runs when the storage query returned nothing returns
\* exactly chunks that share a word with the query, the ones sharing most
\* words first, at most n_results of them, none left out that shares more
\* words than a returned one, each at the distance
\* 1 - shared words / |query words|.
C24_KeywordScan ==
  sc.pc = "done" =>
    LET matching == {j \in 1..Len(sc.store) : SharedWords(j) # {}}
        hits == 1..Len(sc.out.value)
        nq == Cardinality(WordSet(sc.query))
    IN /\ ~sc.out.raised
       /\ Len(sc.out.value) = Min(sc.n_results, Cardinality(matching))
       /\ \A r \in hits :
            /\ HitAt(r) \in matching
            /\ sc.out.value[r].content = sc.store[HitAt(r)].document
            /\ sc.out.value[r].distance[2] = nq
            /\ sc.out.value[r].distance[1] = nq - Cardinality(SharedWords(HitAt(r)))
       /\ \A r1, r2 \in hits :
            r1 < r2 => /\ HitAt(r1) # HitAt(r2)
                       /\ Cardinality(SharedWords(HitAt(r1)))
                            >= Cardinality(SharedWords(HitAt(r2)))
       /\ \A j \in matching :
            (\A r \in hits : HitAt(r) # j) =>
              \A r \in hits : Cardinality(SharedWords(j))
                                 <= Cardinality(SharedWords(HitAt(r)))

\* Three chunks, one sharing no word with the query; the chunk sharing most
\* words is stored last and returned first.
C24_Witness ==
  /\ sc.pc = "done"
  /\ sc.query = "Filter  unit hvac"
  /\ Len(sc.store) = 3
  /\ sc.store[1].document = "LED lamp"
  /\ sc.store[2].document = "HVAC filter"
  /\ sc.store[3].document = "filter the HVAC unit"
  /\ sc.n_results = 2
  /\ Len(sc.out.value) = 2
  /\ HitAt(1) = 3 /\ HitAt(2) = 2

\* C25 as stated: there are a query and stored chunks for which the scan
\* returns a distance below 0.
C25_NegativeDistance ==
  sc.pc = "done" =>
    \E query \in ScanQueries, doc \in ScanDocs :
      LET out == KeywordScan(<<[document |-> doc, metadata |-> [chunk_index |-> 1]]>>,
                             query, 1)
      IN \E r \in 1..Len(out.value) : out.value[r].distance[1] < 0

\* C25 as amended: a distance the scan returns is 1 - score / |query words|
\* with 1 <= score <= |query words|: at least 0 and below 1.
C25_DistanceInRange ==
  sc.pc = "done" =>
    \A r \in 1..Len(sc.out.value) :
      /\ sc.out.value[r].distance[2] > 0
      /\ sc.out.value[r].distance[1] >= 0
      /\ sc.out.value[r].distance[1] < sc.out.value[r].distance[2]

\* A chunk that holds a word of the query twice, and one that holds every
\* word of the query: distances 1/2 and 0.
C25_Witness ==
  /\ sc.pc = "done"
  /\ sc.query = "hvac filter"
  /\ Len(sc.out.value) = 2
  /\ sc.out.value[1].content = "HVAC filter"
  /\ sc.out.value[1].distance = <<0, 2>>
  /\ sc.out.value[2].content = "hvac hvac unit"
  /\ sc.out.value[2].distance = <<1, 2>>

(***************************************************************************)
(* Properties of the query classification.                                 *)
(***************************************************************************)
Matches(table, i, s) ==
  Cardinality({k \in 1..Len(table[i].keywords) : Contains(s, table[i].keywords[k])})

Topics == {IntentKeywords[i].topic : i \in 1..Len(IntentKeywords)}

\* C10 as stated: the topic of a query is the first one, in the priority
\* order, one of whose keywords occurs in the lower-cased query, and
\* 'general' if none does.
C10_FirstMatch ==
  qi.pc = "classified" =>
    LET hits == {i \in 1..Len(IntentKeywords) :
                   Matches(IntentKeywords, i, qi.query_lower) > 0}
    IN IF hits = {} THEN qi.intent = "general"
       ELSE \E i \in hits : /\ \A j \in hits : i <= j
                            /\ qi.intent = IntentKeywords[i].topic

\* C10 amended: the topic of a query is the one with the most keywords
\* occurring in the lower-cased query, the earliest in the priority order
\* among those with the most, and 'general' if no keyword occurs; the branch
\* taken is the first, in the order of the chain, that is this topic or has
\* one of its own terms in the query; the example query gets 'hvac'.
C10_HighestScore ==
  qi.pc = "classified" =>
    LET n(i) == Matches(IntentKeywords, i, qi.query_lower)
        own(i) == Matches(BranchKeywords, i, qi.query_lower) > 0
        taken(i) == BranchKeywords[i].topic = qi.intent \/ own(i)
    IN /\ qi.intent \in Topics \cup {"general"}
       /\ qi.intent = "general" <=> \A i \in 1..Len(IntentKeywords) : n(i) = 0
       /\ \A i \in 1..Len(IntentKeywords) :
            qi.intent = IntentKeywords[i].topic =>
              /\ n(i) > 0
              /\ \A j \in 1..Len(IntentKeywords) :
                   (j < i => n(j) < n(i)) /\ (j > i => n(j) <= n(i))
       /\ qi.branch \in Topics \cup {"general"}
       /\ qi.branch = "general" <=> \A i \in 1..Len(BranchKeywords) : ~taken(i)
       /\ \A i \in 1..Len(BranchKeywords) :
            qi.branch = BranchKeywords[i].topic =>
              (taken(i) /\ \A j \in 1..(i - 1) : ~taken(j))
       /\ qi.query = ExampleQuery => (qi.intent = "hvac" /\ qi.branch = "hvac")

C10_Witness ==
  /\ qi.pc = "classified"
  /\ qi.intent = "automation"
  /\ Matches(IntentKeywords, 1, qi.query_lower) = 1
  /\ Matches(IntentKeywords, 6, qi.query_lower) = 2

(***************************************************************************)
(* Properties of the synthesized context.                                  *)
(***************************************************************************)
AdvisoryCount(context) ==
  Cardinality({i \in 1..Len(context) : context[i].kind = "advisory"})

\* C28: a query that is just one keyword of a topic, as listed in
\* determine_query_intent, takes the branch of get_context_for_query that
\* appends the advisory of that topic: no keyword of an earlier topic that
\* occurs inside it takes the query away.
C28_KeywordOwnAdvisory ==
  qi.pc = "classified" =>
    \A i \in 1..Len(IntentKeywords) :
      (\E k \in 1..Len(IntentKeywords[i].keywords) :
         qi.query = IntentKeywords[i].keywords[k])
        => qi.branch = IntentKeywords[i].topic

\* C11: whenever its search returns at least one chunk, get_context_for_query
\* appends exactly one advisory paragraph, never those of two or more topics
\* (and never none).
C11_OneAdvisory ==
  (ret.op = "get_context_for_query" /\ ret.found >= 1) =>
    AdvisoryCount(ret.value) = 1

(***************************************************************************)
(* Properties of ingestion.                                                *)
(***************************************************************************)
ChunksOf(name) ==
  Cardinality({i \in 1..Len(chroma) : chroma[i].metadata.filename = name})
    + Cardinality({i \in 1..Len(fallback_storage) :
                     fallback_storage[i].metadata.filename = name})

\* C12: add_document on an existing file whose extension extract_text_from_file
\* does not recognise returns False and adds no chunk to the collection.
C12_UnsupportedSkipped ==
  (/\ ret.op = "add_document"
   /\ FileExists(ret.file)
   /\ extract_text_from_file(disk, ret.file) = "Unsupported file format")
  => (ret.value = FALSE /\ ChunksOf(ret.file) = 0)

ExtractionFailed(name) ==
  ~FileExists(name) \/ StartsWith(extract_text_from_file(disk, name), "Error")

AddDocumentStep == pc = "ready" /\ ret'.op = "add_document"

StoreUnchanged == chroma' = chroma /\ fallback_storage' = fallback_storage

\* C13 as stated: a failed extraction makes add_document return False without
\* raising and leaves the collection unchanged, and add_document rejects a
\* document only when its extraction failed.
C13_RejectedOnlyOnFailure ==
  [][AddDocumentStep =>
       /\ ExtractionFailed(ret'.file) =>
            (~ret'.raised /\ ret'.value = FALSE /\ StoreUnchanged)
       /\ ret'.value = FALSE => ExtractionFailed(ret'.file)]_vars

\* C13 amended: a failed extraction makes add_document return False without
\* raising and leaves the collection unchanged; add_document returns False
\* exactly when the file is missing, its extracted text is empty or begins
\* with "Error", or the storage add raised; in all these cases but the last
\* the collection is unchanged.
C13_RejectedUnchanged ==
  [][AddDocumentStep =>
       /\ ~ret'.raised
       /\ (ExtractionFailed(ret'.file) \/ extract_text_from_file(disk, ret'.file) = "")
            => (ret'.value = FALSE /\ StoreUnchanged)
       /\ ret'.value = FALSE <=>
            \/ ExtractionFailed(ret'.file)
            \/ extract_text_from_file(disk, ret'.file) = ""
            \/ ret'.storage_raised]_vars

C13_Witness ==
  /\ ret.op = "add_document" /\ ret.file = "bad.pdf" /\ ret.value = FALSE
  /\ StoredCount >= 1

\* The ids add_document gives the chunks of the file name as it is on disk.
NewIds(name) ==
  {Stem(name) \o "_" \o ToString(i - 1) :
     i \in 1..Len(chunk_text(AcceptedText(disk, name), DefaultChunkSize,
                             DefaultOverlap))}

\* C22: chunk ids come from the stem of the file name and the chunk index
\* only, so on tier D a second ingestion of a file overwrites the chunks
\* stored under its ids: it leaves count_documents as it was when the text
\* is unchanged, and count_documents is always the number of distinct ids
\* ever added.
C22_ReingestOverwrites ==
  [][(AddDocumentStep /\ use_fallback) =>
       /\ \A i \in 1..Len(fallback_storage') :
            fallback_storage'[i].metadata.filename = ret'.file =>
              fallback_storage'[i].id =
                Stem(ret'.file) \o "_" \o ToString(fallback_storage'[i].metadata.chunk_index)
       /\ IdsOf(fallback_storage') =
            IdsOf(fallback_storage) \cup (IF ret'.value THEN NewIds(ret'.file) ELSE {})
       /\ Len(fallback_storage') = Cardinality(IdsOf(fallback_storage'))
       /\ (ret'.value /\ NewIds(ret'.file) \subseteq IdsOf(fallback_storage)) =>
            Len(fallback_storage') = Len(fallback_storage)]_vars

\* hvac.txt ingested a second time on tier D with the text it had the first
\* time: one chunk is stored.
C22_Witness ==
  /\ ret.op = "add_document" /\ ret.file = "hvac.txt" /\ ret.value /\ ret.again
  /\ use_fallback
  /\ disk["hvac.txt"] = 1
  /\ IdsOf(fallback_storage) = {"hvac_0"}

\* C23: a chunk stored under an id keeps its text, metadata and embedding in
\* every later state of the collection, and ingesting a document again
\* stores its chunks under ids that were not used before.
C23_ChunksImmutable ==
  [][/\ \A i \in 1..Len(chroma) : \E j \in 1..Len(chroma') : chroma'[j] = chroma[i]
     /\ \A i \in 1..Len(fallback_storage) :
          \E j \in 1..Len(fallback_storage') : fallback_storage'[j] = fallback_storage[i]
     /\ (AddDocumentStep /\ ret'.value /\ ret'.again) =>
          NewIds(ret'.file) \cap (IdsOf(chroma) \cup IdsOf(fallback_storage)) = {}]_vars

\* the stored chunks whose id begins with the stem of the file name
StoredOf(store, name) ==
  {i \in 1..Len(store) : StartsWith(store[i].id, Stem(name) \o "_")}

\* C29: when a file already ingested is ingested again with a text that
\* makes fewer chunks than are stored for it, every chunk stored afterwards
\* under an id of that file is a chunk of the text just ingested.
C29_NoStaleChunks ==
  [][(/\ AddDocumentStep /\ ret'.value /\ ret'.again
      /\ Cardinality(NewIds(ret'.file))
           < Cardinality(StoredOf(chroma, ret'.file))
               + Cardinality(StoredOf(fallback_storage, ret'.file))) =>
       LET chunks == chunk_text(AcceptedText(disk, ret'.file), DefaultChunkSize,
                                DefaultOverlap)
           Current(entry) ==
             \E i \in 1..Len(chunks) :
               /\ entry.id = Stem(ret'.file) \o "_" \o ToString(i - 1)
               /\ entry.document = chunks[i]
       IN /\ \A i \in StoredOf(chroma', ret'.file) : Current(chroma'[i])
          /\ \A i \in StoredOf(fallback_storage', ret'.file) :
               Current(fallback_storage'[i])]_vars

(***************************************************************************)
(* Properties of extract_text_from_url.                                    *)
(***************************************************************************)
Gets(events) ==
  {i \in 1..Len(events) : events[i] \in {"get_verified", "get_unverified"}}

CountOf(events, e) == Cardinality({i \in 1..Len(events) : events[i] = e})

\* robots.txt could not be read: the server was not reached, or it answered
\* an error status instead of the file
RobotsUnread(robots) ==
  robots \in {"unreachable", "http_403", "http_404", "http_503"}

\* C14: the robots.txt check precedes every page fetch; when the policy
\* disallows the URL an error sentinel is returned with no GET and no sleep;
\* when robots.txt cannot be read the URL is treated as permitted.
C14_RobotsFirst ==
  ux.pc = "done" =>
    /\ ux.events # <<>> /\ ux.events[1] = "robots"
    /\ ux.site.robots = "disallows" =>
         /\ StartsWith(ux.value, "Error")
         /\ Gets(ux.events) = {}
         /\ CountOf(ux.events, "sleep") = 0
    /\ RobotsUnread(ux.site.robots) => Gets(ux.events) # {}

\* C15: one call issues at most two GETs of the URL; the second, unverified,
\* is issued exactly when the first failed with a TLS verification error,
\* once, after a warning; if it fails too an error sentinel is returned; any
\* other failure of the first GET returns an error sentinel with no retry.
C15_OneRetry ==
  ux.pc = "done" =>
    /\ Cardinality(Gets(ux.events)) <= 2
    /\ CountOf(ux.events, "get_verified") <= 1
    /\ CountOf(ux.events, "get_unverified") =
         (IF CountOf(ux.events, "get_verified") = 1 /\ ux.site.first = "ssl_error"
          THEN 1 ELSE 0)
    /\ CountOf(ux.events, "warning") = CountOf(ux.events, "get_unverified")
    /\ \A i \in 1..Len(ux.events) :
         ux.events[i] = "get_unverified" =>
           (i > 2 /\ ux.events[i - 1] = "warning" /\ ux.events[i - 2] = "get_verified")
    /\ (CountOf(ux.events, "get_unverified") = 1 /\ ux.site.second # "ok")
         => StartsWith(ux.value, "Error")
    /\ (CountOf(ux.events, "get_verified") = 1
          /\ ux.site.first \notin {"ok", "ssl_error"})
         => (StartsWith(ux.value, "Error") /\ Cardinality(Gets(ux.events)) = 1)

C15_Witness ==
  /\ ux.pc = "done"
  /\ ux.site.first = "ssl_error" /\ ux.site.second = "connection_error"
  /\ ux.events = <<"robots", "sleep", "get_verified", "warning", "get_unverified">>
  /\ StartsWith(ux.value, "Error")

\* C27: every GET request of extract_text_from_url, the verified one and
\* the retry without verification, has a 1-second sleep between it and the
\* network request before it.
C27_SleepBeforeEveryGet ==
  ux.pc = "done" =>
    \A i \in 1..Len(ux.events) :
      ux.events[i] \in {"get_verified", "get_unverified"} =>
        \E k \in 1..(i - 1) :
          /\ ux.events[k] = "sleep"
          /\ \A j \in (k + 1)..(i - 1) :
               ux.events[j] \notin {"robots", "get_verified", "get_unverified"}

(***************************************************************************)
(* Properties of web training and of the statistics.                       *)
(***************************************************************************)
\* C16: train_from_url_list calls the ingestion of every URL of the list, in
\* the order of the list, whatever failed before, and the number of
\* successful URLs plus the number of failed URLs is the length of the list.
C16_EveryUrlCounted ==
  ret.op = "train_from_url_list" =>
    /\ ~ret.raised
    /\ ret.calls = ret.urls
    /\ ret.successful + ret.failed = Len(ret.urls)

\* C17: get_knowledge_base_stats returns no error while the storage works,
\* and reports the number of chunks stored and the number of distinct
\* sources (files and URLs) ingested.
C17_StatsMatch ==
  (ret.op = "get_knowledge_base_stats" /\ ~ret.storage_raised) =>
    /\ ret.value.kind = "stats"
    /\ ret.value.chunks = StoredCount
    /\ ret.value.unique = Cardinality(ingested)

(***************************************************************************)
(* Properties of the file watchers.                                        *)
(***************************************************************************)
\* an event for this file must not lead to training: its extension is not
\* watched, its name starts with "~" or ".", or it is a backup name (for
\* AutoTrainingHandler) or an ignored name (for SmartBuildingAutoTrainer)
Exempt(name) ==
  \/ Lower(Suffix(name))
       \notin {".pdf", ".docx", ".doc", ".txt", ".json", ".md", ".csv", ".xlsx"}
  \/ CharAt(name, 1) \in {"~", "."}
  \/ IF wt.handler = "AutoTrainingHandler"
     THEN Contains(name, ".bak") \/ Contains(name, ".tmp")
     ELSE name \in {"training_log.json", ".DS_Store", "Thumbs.db", "desktop.ini"}

\* a handler starts train_on_file
TrainStep == pc = "ready" /\ pc' = "returned" /\ ret'.op = "add_document"

\* C30: train_on_file is never started for an exempt file, and never less
\* than training_delay seconds (5 for AutoTrainingHandler, 3 for
\* SmartBuildingAutoTrainer) after it was last started for the same path.
C30_Debounce ==
  [][TrainStep =>
       /\ ~Exempt(ret'.file)
       /\ ret'.file \in DOMAIN wt.started =>
            wt'.started[ret'.file] - wt.started[ret'.file]
              >= (IF wt.handler = "AutoTrainingHandler" THEN 5 ELSE 3)]_vars

(***************************************************************************)
(* Properties of the web block of the context.                             *)
(***************************************************************************)
\* the chunks the call retrieved
Retrieved == search_documents(ret.query, ContextResults, ret.storage_raised).value

\* the URLs of the retrieved chunks that come from the web
WebSources ==
  {Retrieved[i].metadata.source_url :
     i \in {j \in 1..Len(Retrieved) : "source_url" \in DOMAIN Retrieved[j].metadata}}

\* the sentences of the retrieved chunks of a URL
WebPieces(url) ==
  UNION {LET pieces == SplitOnFrom(Retrieved[i].content, ".", 1)
         IN {Strip(pieces[k]) : k \in 1..Len(pieces)} :
           i \in {j \in 1..Len(Retrieved) :
                    /\ "source_url" \in DOMAIN Retrieved[j].metadata
                    /\ Retrieved[j].metadata.source_url = url}}

\* the number of whole words a sentence shares with the query
Overlap(sentence) == Cardinality(WordSet(ret.query) \cap WordSet(sentence))

\* the sentences of a URL that can be selected
Eligible(url) ==
  {p \in WebPieces(url) : Len(p) > MinSentenceLength /\ Overlap(p) > 0}

\* a line of the block without the full stop that ends it
Unstopped(text) ==
  IF Len(text) > 0 /\ CharAt(text, Len(text)) = "."
  THEN SubSeq(text, 1, Len(text) - 1) ELSE text

\* The block that begins at line a of the web lines: a domain line, at most
\* two sentences of that source that share a word with the query and that
\* no other sentence of the source outranks, in the order of their rank,
\* and the URL of the source.
WebBlockAt(lines, a) ==
  \E z \in (a + 1)..Len(lines) :
    /\ lines[z].line = "source"
    /\ \A k \in (a + 1)..(z - 1) : lines[k].line = "sentence"
    /\ LET url == lines[z].text
           chosen == [k \in 1..(z - a - 1) |-> Unstopped(lines[a + k].text)]
       IN /\ url \in WebSources
          /\ \/ lines[a].text = Netloc(url)
             \/ /\ StartsWith(Netloc(url), "www.")
                /\ lines[a].text = SubSeq(Netloc(url), 5, Len(Netloc(url)))
          /\ Len(chosen) \in 1..2
          /\ \A k \in 1..Len(chosen) : chosen[k] \in Eligible(url)
          /\ \A k \in 1..(Len(chosen) - 1) : Overlap(chosen[k]) >= Overlap(chosen[k + 1])
          /\ \A p \in Eligible(url) :
               (\A k \in 1..Len(chosen) : chosen[k] # p) =>
                 (Len(chosen) = 2 /\ Overlap(p) <= Overlap(chosen[2]))

\* C26: when a retrieved chunk comes from the web, the context begins with
\* the web block, ahead of every paragraph of a topic, and the block holds,
\* for each source, its domain, at most the two sentences of the source
\* that share the most whole words with the query (each shares at least
\* one), best first, and its URL.
C26_WebBlock ==
  (ret.op = "get_context_for_query" /\ ~ret.storage_raised /\ WebSources # {}) =>
    LET context == ret.value
        web == {i \in 1..Len(context) : context[i].kind = "web"}
    IN /\ web \subseteq {2}
       /\ (\E url \in WebSources : Eligible(url) # {}) => web = {2}
       /\ \A b \in web :
            /\ context[1].kind = "web heading"
            /\ context[b].lines[1].line = "domain"
            /\ \A a \in 1..Len(context[b].lines) :
                 context[b].lines[a].line = "domain" => WebBlockAt(context[b].lines, a)

=============================================================================
